---- MODULE Spec2Model ----
(***************************************************************************)
(* Turn-resolution engine of wsim (Wooden Ships & Iron Men): one game      *)
(* snapshot, the HTTP handlers of wsim_api/routers/games.py that mutate    *)
(* it, and the wsim_core engine functions those handlers call.             *)
(***************************************************************************)
EXTENDS Integers, Sequences, FiniteSets, TLC

VARIABLES
    turn_number,      \* Game.turn_number
    phase,            \* Game.phase
    map_width,        \* Game.map_width
    map_height,       \* Game.map_height
    wind_direction,   \* Game.wind_direction
    ships,            \* Game.ships: ship id -> Ship
    p1_orders,        \* Game.p1_orders (None or TurnOrders)
    p2_orders,        \* Game.p2_orders (None or TurnOrders)
    event_log,        \* Game.event_log
    turn_limit,       \* Game.turn_limit
    victory_condition,\* Game.victory_condition
    game_ended,       \* Game.game_ended
    winner,           \* Game.winner
    last_response     \* the handler that answered last and its HTTP status

gamevars == <<turn_number, phase, map_width, map_height, wind_direction, ships,
              p1_orders, p2_orders, event_log, turn_limit, victory_condition,
              game_ended, winner>>
vars == <<turn_number, phase, map_width, map_height, wind_direction, ships,
          p1_orders, p2_orders, event_log, turn_limit, victory_condition,
          game_ended, winner, last_response>>

None == "None"
\* the value None of an Optional[TurnOrders] field
NoOrders == [is_none |-> TRUE]

\* ---------------------------------------------------------------- bounds
\* longest event log the model explores: a call that would grow the log
\* beyond it is not taken
MaxEvents == 7
\* the room a game of three ships gets on top of it, for the events of its
\* third ship and of the collisions and drifts of two turns
MaxFleetEvents == 11
LogLimit == MaxEvents + (IF Cardinality(DOMAIN ships) > 2 THEN MaxFleetEvents ELSE 0)

\* ------------------------------------------------------- helper operators
Max(a, b) == IF a > b THEN a ELSE b
Abs(x) == IF x < 0 THEN -x ELSE x
Range(s) == {s[i] : i \in 1..Len(s)}

\* ------------------------------------------------------------ common.py
Side == {"P1", "P2"}
Broadside == {"L", "R"}
AimPoint == {"hull", "rigging"}
EMPTY == "E"
ROUNDSHOT == "R"

\* -------------------------------------------------------------- hex.py
\* HexCoord(col, row); the pydantic model rejects a negative col or row
HexCoord(c, r) == [col |-> c, row |-> r]
HexCoordValid(h) == h.col >= 0 /\ h.row >= 0

\* -------------------------------------------------- movement_executor.py
turn_left(f) ==
    CASE f = "N" -> "NW" [] f = "NE" -> "N" [] f = "E" -> "NE" [] f = "SE" -> "E"
      [] f = "S" -> "SE" [] f = "SW" -> "S" [] f = "W" -> "SW" [] f = "NW" -> "W"

turn_right(f) ==
    CASE f = "N" -> "NE" [] f = "NE" -> "E" [] f = "E" -> "SE" [] f = "SE" -> "S"
      [] f = "S" -> "SW" [] f = "SW" -> "W" [] f = "W" -> "NW" [] f = "NW" -> "N"

\* (col_offset, row_offset_even_col, row_offset_odd_col), odd-q layout
direction_offsets(d) ==
    CASE d = "N"  -> <<0, -1, -1>>
      [] d = "NE" -> <<1, -1, 0>>
      [] d = "SE" -> <<1, 0, 1>>
      [] d = "S"  -> <<0, 1, 1>>
      [] d = "SW" -> <<-1, 0, 1>>
      [] d = "NW" -> <<-1, -1, 0>>
      [] d = "E"  -> <<1, 0, 0>>
      [] d = "W"  -> <<-1, 0, 0>>

\* the neighbour of a hex; the result may have a negative coordinate, in
\* which case constructing the HexCoord raises in the code (HexCoordValid)
OffsetHex(h, o) == HexCoord(h.col + o[1], h.row + (IF h.col % 2 = 1 THEN o[3] ELSE o[2]))
get_adjacent_hex(h, d) == OffsetHex(h, direction_offsets(d))

opposite_facing_map(f) ==
    CASE f = "N" -> "S" [] f = "NE" -> "SW" [] f = "E" -> "W" [] f = "SE" -> "NW"
      [] f = "S" -> "N" [] f = "SW" -> "NE" [] f = "W" -> "E" [] f = "NW" -> "SE"

calculate_stern_from_bow(bow, f) == get_adjacent_hex(bow, opposite_facing_map(f))

\* ------------------------------------------------------ movement_parser.py
\* a movement string is a sequence of one-character strings
DigitChars == {"0", "1", "2", "3", "4", "5", "6", "7", "8", "9"}
DigitValue(c) ==
    CASE c = "0" -> 0 [] c = "1" -> 1 [] c = "2" -> 2 [] c = "3" -> 3 [] c = "4" -> 4
      [] c = "5" -> 5 [] c = "6" -> 6 [] c = "7" -> 7 [] c = "8" -> 8 [] c = "9" -> 9

\* str.upper() on the characters the model uses
Upper(c) == CASE c = "l" -> "L" [] c = "r" -> "R" [] OTHER -> c

RECURSIVE StripLeft(_)
StripLeft(s) == IF s # <<>> /\ Head(s) = " " THEN StripLeft(Tail(s)) ELSE s
RECURSIVE StripRight(_)
StripRight(s) ==
    IF s # <<>> /\ s[Len(s)] = " " THEN StripRight(SubSeq(s, 1, Len(s) - 1)) ELSE s
\* notation.strip().upper()
Normalize(s) == LET t == StripRight(StripLeft(s)) IN [i \in 1..Len(t) |-> Upper(t[i])]

TURN_LEFT == "turn_left"
TURN_RIGHT == "turn_right"
MOVE_FORWARD == "move_forward"
NO_MOVEMENT == "no_movement"
MovementAction(t, d) == [action_type |-> t, distance |-> d]

\* does the character loop of parse_movement raise on the normalized string
ParseCharsFail(n) ==
    \E i \in 1..Len(n) : n[i] \notin {"L", "R"} /\ (n[i] \notin DigitChars \/ n[i] = "0")

\* parse_movement: [ok, original_notation, actions, total_forward_hexes];
\* ok = FALSE stands for MovementParseError
RECURSIVE SumDigits(_)
SumDigits(n) ==
    IF n = <<>> THEN 0
    ELSE (IF Head(n) \in DigitChars THEN DigitValue(Head(n)) ELSE 0) + SumDigits(Tail(n))

ParsedMovement(ok, n, actions, total) ==
    [ok |-> ok, original_notation |-> n, actions |-> actions, total_forward_hexes |-> total]
ParseNormalized(notation, n) ==
    IF notation = <<>> THEN ParsedMovement(FALSE, n, <<>>, 0)
    ELSE IF n = <<>> THEN ParsedMovement(FALSE, n, <<>>, 0)
    ELSE IF n = <<"0">> THEN ParsedMovement(TRUE, n, <<MovementAction(NO_MOVEMENT, 0)>>, 0)
    ELSE IF ParseCharsFail(n) THEN ParsedMovement(FALSE, n, <<>>, 0)
    ELSE ParsedMovement(TRUE, n,
             [i \in 1..Len(n) |->
                 IF n[i] = "L" THEN MovementAction(TURN_LEFT, 1)
                 ELSE IF n[i] = "R" THEN MovementAction(TURN_RIGHT, 1)
                 ELSE MovementAction(MOVE_FORWARD, DigitValue(n[i]))],
             SumDigits(n))
parse_movement(notation) == ParseNormalized(notation, Normalize(notation))

\* validate_movement_within_allowance: TRUE when it does not raise
validate_movement_within_allowance(parsed, movement_allowance) ==
    parsed.total_forward_hexes <= movement_allowance

\* ShipOrders.movement_string pattern ^[0-9LR]+$ (request validation)
MovementStringPattern(s) == s # <<>> /\ \A i \in 1..Len(s) : s[i] \in DigitChars \cup {"L", "R"}

\* ------------------------------------------------------------- game.py
\* iteration order of the Game.ships dict: scenarios list their ships in
\* this order, and no handler inserts or removes a key
AllShipIds == <<"a1", "b1", "b2">>
ShipOrder(sh) == SelectSeq(AllShipIds, LAMBDA id : id \in DOMAIN sh)
get_ships_by_side(sh, side) == {id \in DOMAIN sh : sh[id].side = side}

EventLogEntry(t, ph, type, meta) ==
    [turn_number |-> t, phase |-> ph, event_type |-> type, metadata |-> meta]

\* -------------------------------------------------- movement_executor.py
\* ShipMovementState on creation
ShipMovementState(parsed) ==
    [parsed_movement |-> parsed, current_action_index |-> 0,
     hexes_moved_forward |-> 0, bow_advanced |-> FALSE, completed |-> FALSE]

\* ShipMovementState.advance_action
AdvancedTo(state, i) ==
    [state EXCEPT !.current_action_index = i,
                  !.completed = (i >= Len(state.parsed_movement.actions))]
advance_action(state) == AdvancedTo(state, state.current_action_index + 1)

\* execute_ship_turn: [ok, ship]; ok = FALSE when the new stern has a
\* negative coordinate and the HexCoord constructor raises
TurnedShip(ship, new_facing, new_stern) ==
    IF HexCoordValid(new_stern)
    THEN [ok |-> TRUE, ship |-> [ship EXCEPT !.facing = new_facing, !.stern_hex = new_stern]]
    ELSE [ok |-> FALSE, ship |-> ship]
TurnTo(ship, new_facing) ==
    TurnedShip(ship, new_facing, calculate_stern_from_bow(ship.bow_hex, new_facing))
execute_ship_turn(ship, turn_direction) ==
    TurnTo(ship, IF turn_direction = TURN_LEFT THEN turn_left(ship.facing)
                 ELSE turn_right(ship.facing))

InBounds(h, mw, mh) == h.col >= 0 /\ h.col < mw /\ h.row >= 0 /\ h.row < mh

\* the per-step loop of execute_ship_forward_movement: [ok, bow]
RECURSIVE ForwardSteps(_, _, _, _, _)
ForwardStepTo(new_bow, bow, f, k, mw, mh) ==
    IF ~InBounds(new_bow, mw, mh) THEN [ok |-> FALSE, bow |-> bow]
    ELSE ForwardSteps(new_bow, f, k - 1, mw, mh)
ForwardSteps(bow, f, k, mw, mh) ==
    IF k = 0 THEN [ok |-> TRUE, bow |-> bow]
    ELSE ForwardStepTo(OffsetHex(bow, direction_offsets(f)), bow, f, k, mw, mh)

\* execute_ship_forward_movement: [ok, ship]
MovedShip(ship, r, new_stern) ==
    IF r.ok /\ HexCoordValid(new_stern)
    THEN [ok |-> TRUE, ship |-> [ship EXCEPT !.bow_hex = r.bow, !.stern_hex = new_stern]]
    ELSE [ok |-> FALSE, ship |-> ship]
ForwardResult(ship, r) == MovedShip(ship, r, calculate_stern_from_bow(r.bow, ship.facing))
execute_ship_forward_movement(ship, distance, mw, mh) ==
    IF distance <= 0 THEN [ok |-> TRUE, ship |-> ship]
    ELSE ForwardResult(ship, ForwardSteps(ship.bow_hex, ship.facing, distance, mw, mh))

\* one iteration of the for loop of execute_simultaneous_movement for ship id;
\* st = [ships, ms, err, total, trace]
ApplyTurn(st, id, r) ==
    IF ~r.ok THEN [st EXCEPT !.err = TRUE]
    ELSE [st EXCEPT !.ships[id] = r.ship,
                    !.ms[id] = advance_action(@),
                    !.total = @ + 1,
                    !.trace = Append(@, <<id, st.ms[id].current_action_index>>)]
ApplyForward(st, id, action, r) ==
    IF st.ms[id].hexes_moved_forward + action.distance > st.ships[id].battle_sail_speed
        THEN [st EXCEPT !.err = TRUE]
    ELSE IF ~r.ok THEN [st EXCEPT !.err = TRUE]
    ELSE [st EXCEPT
            !.ships[id] = r.ship,
            !.ms[id] = advance_action(
                [@ EXCEPT !.bow_advanced = (@ \/ r.ship.bow_hex # st.ships[id].bow_hex),
                          !.hexes_moved_forward = @ + action.distance]),
            !.total = @ + 1,
            !.trace = Append(@, <<id, st.ms[id].current_action_index>>)]
\* an executor that knows turns and forward movement only
ExecuteActionMovesOnly(st, id, action, mw, mh) ==
    IF action.action_type = NO_MOVEMENT THEN [st EXCEPT !.err = TRUE]
    ELSE IF action.action_type \in {TURN_LEFT, TURN_RIGHT}
        THEN ApplyTurn(st, id, execute_ship_turn(st.ships[id], action.action_type))
    ELSE ApplyForward(st, id, action,
             execute_ship_forward_movement(st.ships[id], action.distance, mw, mh))
ExecuteAction(st, id, action, mw, mh) ==
    IF action.action_type = NO_MOVEMENT THEN [st EXCEPT !.ms[id].completed = TRUE]
    ELSE IF action.action_type \in {TURN_LEFT, TURN_RIGHT}
        THEN ApplyTurn(st, id, execute_ship_turn(st.ships[id], action.action_type))
    ELSE ApplyForward(st, id, action,
             execute_ship_forward_movement(st.ships[id], action.distance, mw, mh))
ExecuteNextAction(st, id, mw, mh) ==
    IF st.ms[id].completed THEN st
    ELSE IF st.ms[id].current_action_index >= Len(st.ms[id].parsed_movement.actions)
        THEN [st EXCEPT !.ms[id].completed = TRUE]
    ELSE ExecuteAction(st, id,
             st.ms[id].parsed_movement.actions[st.ms[id].current_action_index + 1], mw, mh)

\* a for loop that lets every ship take two actions in a row
RECURSIVE ExecuteRoundInPairs(_, _, _, _, _)
ExecuteRoundInPairs(st, order, i, mw, mh) ==
    IF st.err \/ i > Len(order) THEN st
    ELSE ExecuteRoundInPairs(
             ExecuteNextAction(ExecuteNextAction(st, order[i], mw, mh), order[i], mw, mh),
             order, i + 1, mw, mh)

\* the for loop over movement_states, from position i of the dict order
RECURSIVE ExecuteRound(_, _, _, _, _)
ExecuteRound(st, order, i, mw, mh) ==
    IF st.err \/ i > Len(order) THEN st
    ELSE ExecuteRound(ExecuteNextAction(st, order[i], mw, mh), order, i + 1, mw, mh)

\* the while loop: rounds until every ship has completed
RECURSIVE ExecuteRounds(_, _, _, _)
ExecuteRounds(st, order, mw, mh) ==
    IF st.err \/ \A i \in 1..Len(order) : st.ms[order[i]].completed THEN st
    ELSE ExecuteRounds(ExecuteRound(st, order, 1, mw, mh), order, mw, mh)

\* execute_simultaneous_movement(ships, movements, map_width, map_height):
\* movements is a function ship id -> ParsedMovement, order its dict order.
\* Result [err, ships, ships_moved, total, trace]; err = TRUE when it raises,
\* and then ships is the working copy as it was when the exception left.
MovementResult(st, movements) ==
    [err |-> st.err, ships |-> st.ships,
     ships_moved |-> [id \in DOMAIN movements |-> st.ms[id].bow_advanced],
     total |-> st.total, trace |-> st.trace]
execute_simultaneous_movement(sh, movements, order, mw, mh) ==
    MovementResult(
        ExecuteRounds([ships |-> sh,
                       ms |-> [id \in DOMAIN movements |-> ShipMovementState(movements[id])],
                       err |-> \E id \in DOMAIN movements : id \notin DOMAIN sh,
                       total |-> 0, trace |-> <<>>],
                      order, mw, mh),
        movements)

\* ------------------------------------------------------------ collision.py
\* get_ship_hexes is a Python set; stern_first is the order in which the
\* set yields its two members (left open by the language)
get_ship_hexes(ship) == {ship.bow_hex, ship.stern_hex}
ShipHexSeq(ship, stern_first) ==
    IF ship.bow_hex = ship.stern_hex THEN <<ship.bow_hex>>
    ELSE IF stern_first THEN <<ship.stern_hex, ship.bow_hex>>
    ELSE <<ship.bow_hex, ship.stern_hex>>

\* the ship ids detect_hex_occupancy lists for a hex (dict order of ships)
ShipsAtHex(sh, h) == SelectSeq(ShipOrder(sh), LAMBDA id : h \in get_ship_hexes(sh[id]))

\* the keys of the dict detect_hex_occupancy builds, in insertion order
NewKeys(hs, acc) == acc \o SelectSeq(hs, LAMBDA h : h \notin Range(acc))
RECURSIVE OccupancyKeys(_, _, _, _)
OccupancyKeys(sh, stern_first, order, acc) ==
    IF order = <<>> THEN acc
    ELSE OccupancyKeys(sh, stern_first, Tail(order),
             NewKeys(ShipHexSeq(sh[Head(order)], stern_first[Head(order)]), acc))

\* detect_collisions: the hexes holding more than one ship after movement
detect_collisions(ships_after, stern_first) ==
    SelectSeq(OccupancyKeys(ships_after, stern_first, ShipOrder(ships_after), <<>>),
              LAMBDA h : Len(ShipsAtHex(ships_after, h)) > 1)

ships_already_here(h, ship_ids, ships_before) ==
    SelectSeq(ship_ids, LAMBDA id : h \in get_ship_hexes(ships_before[id]))
ships_that_moved_here(h, ship_ids, ships_before) ==
    SelectSeq(ship_ids, LAMBDA id : h \notin get_ship_hexes(ships_before[id]))

\* does resolve_collision roll the die for this hex
CollisionRolls(h, ship_ids, ships_before) ==
    /\ Len(ships_that_moved_here(h, ship_ids, ships_before)) >= 2
    /\ Len(ships_already_here(h, ship_ids, ships_before)) = 0

CollisionResolution(h, ship_ids, occupying, displaced, method, roll) ==
    [collision_hex |-> h, ship_ids_involved |-> ship_ids, occupying_ship_id |-> occupying,
     displaced_ship_ids |-> displaced, resolution_method |-> method, roll |-> roll]
RandomOccupant(h, ship_ids, moved, occ, roll) ==
    CollisionResolution(h, ship_ids, occ, SelectSeq(moved, LAMBDA id : id # occ),
                    "random_selection_d6", roll)
ResolveAmong(h, ship_ids, already, moved, roll) ==
    IF Len(already) = 1 /\ Len(moved) >= 1
        THEN CollisionResolution(h, ship_ids, already[1], moved, "stationary_priority", 0)
    ELSE IF Len(moved) >= 2 /\ Len(already) = 0
        THEN RandomOccupant(h, ship_ids, moved, moved[(roll % Len(moved)) + 1], roll)
    ELSE IF Len(already) >= 2
        THEN CollisionResolution(h, ship_ids, already[1], Tail(already) \o moved,
                             "multiple_stationary_fallback", 0)
    ELSE CollisionResolution(h, ship_ids, ship_ids[1], Tail(ship_ids), "fallback", 0)
\* resolve_collision; roll is the d6 it draws when CollisionRolls
resolve_collision(h, ship_ids, ships_before, roll) ==
    ResolveAmong(h, ship_ids, ships_already_here(h, ship_ids, ships_before),
                 ships_that_moved_here(h, ship_ids, ships_before), roll)

\* a resolution that puts the displaced ships back without their fouled flag
apply_collision_resolution_unfouled(sh, ships_before, resolution) ==
    [id \in DOMAIN sh |->
        IF id \in Range(resolution.displaced_ship_ids) /\ id \in DOMAIN ships_before
        THEN [ships_before[id] EXCEPT !.fouled = FALSE] ELSE sh[id]]

\* a resolution that leaves the displaced ships where they moved to
apply_collision_resolution_in_place(sh, ships_before, resolution) == sh

\* apply_collision_resolution: displaced ships get their pre-movement copy
apply_collision_resolution(sh, ships_before, resolution) ==
    [id \in DOMAIN sh |->
        IF id \in Range(resolution.displaced_ship_ids) /\ id \in DOMAIN ships_before
        THEN ships_before[id] ELSE sh[id]]

\* -------------------------------------------------------------- fouling.py
\* a fouling check that fouls on 1-2 only
check_fouling_on_two(ship_ids, roll) ==
    [ship_ids |-> ship_ids, fouled |-> roll <= 2, roll |-> roll]

\* check_fouling: the roll decides, 1-3 fouls
check_fouling(ship_ids, roll) == [ship_ids |-> ship_ids, fouled |-> roll <= 3, roll |-> roll]

\* apply_fouling
apply_fouling(sh, fouling_result) ==
    IF ~fouling_result.fouled THEN sh
    ELSE [id \in DOMAIN sh |->
            IF id \in Range(fouling_result.ship_ids) THEN [sh[id] EXCEPT !.fouled = TRUE]
            ELSE sh[id]]

\* ------------------------------------------------------------ collision.py
\* number of d6 rolls detect_and_resolve_collisions draws for these collisions
RECURSIVE RollsNeeded(_, _, _)
RollsNeeded(collisions, ships_before, ships_after) ==
    IF collisions = <<>> THEN 0
    ELSE (IF CollisionRolls(Head(collisions), ShipsAtHex(ships_after, Head(collisions)),
                            ships_before)
          THEN 2 ELSE 1)
         + RollsNeeded(Tail(collisions), ships_before, ships_after)

\* one pass of the loop of detect_and_resolve_collisions;
\* acc = [ships, ri, events, collisions], ri the next roll to draw
AfterCollision(acc, ships_before, resolution, fouling_result, ri_next, t) ==
    [ships |-> apply_fouling(apply_collision_resolution(acc.ships, ships_before, resolution),
                             fouling_result),
     ri |-> ri_next,
     events |-> acc.events \o
                << EventLogEntry(t, "movement", "collision", resolution),
                   EventLogEntry(t, "movement", "fouling_check", fouling_result) >>,
     collisions |-> Append(acc.collisions, resolution)]
ResolveRolled(acc, h, ship_ids, rolled, ships_before, rolls, t) ==
    AfterCollision(acc, ships_before,
        resolve_collision(h, ship_ids, ships_before, IF rolled THEN rolls[acc.ri] ELSE 0),
        check_fouling(ship_ids, rolls[IF rolled THEN acc.ri + 1 ELSE acc.ri]),
        (IF rolled THEN acc.ri + 2 ELSE acc.ri + 1), t)
ResolveHex(acc, h, ship_ids, ships_before, rolls, t) ==
    ResolveRolled(acc, h, ship_ids, CollisionRolls(h, ship_ids, ships_before),
                  ships_before, rolls, t)
RECURSIVE ResolveCollisions(_, _, _, _, _, _)
ResolveCollisions(collisions, ships_before, ships_after, rolls, t, acc) ==
    IF collisions = <<>> THEN acc
    ELSE ResolveCollisions(Tail(collisions), ships_before, ships_after, rolls, t,
             ResolveHex(acc, Head(collisions), ShipsAtHex(ships_after, Head(collisions)),
                        ships_before, rolls, t))

\* detect_and_resolve_collisions: [ships, ri, events, collisions]
detect_and_resolve_collisions(ships_before, ships_after, stern_first, rolls, t) ==
    ResolveCollisions(detect_collisions(ships_after, stern_first), ships_before, ships_after,
                      rolls, t,
                      [ships |-> ships_after, ri |-> 1, events |-> <<>>, collisions |-> <<>>])

\* ---------------------------------------------------------------- drift.py
get_downwind_direction(w) == opposite_facing_map(w)

\* a tracking that counts every turn, bow advanced or not
update_drift_tracking_by_one(sh, movement_result) ==
    [id \in DOMAIN sh |-> [sh[id] EXCEPT !.turns_without_bow_advance = @ + 1]]

\* update_drift_tracking
update_drift_tracking(sh, movement_result) ==
    [id \in DOMAIN sh |->
        IF id \in DOMAIN movement_result /\ movement_result[id]
        THEN [sh[id] EXCEPT !.turns_without_bow_advance = 0]
        ELSE [sh[id] EXCEPT !.turns_without_bow_advance = @ + 1]]

\* the candidate bow and stern of apply_drift: both use the offsets of the
\* downwind direction, each with the parity of its own column
DriftBow(ship, w) == OffsetHex(ship.bow_hex, direction_offsets(get_downwind_direction(w)))
DriftStern(ship, w) == OffsetHex(ship.stern_hex, direction_offsets(get_downwind_direction(w)))
\* a bounds test that looks at the bow only
DriftOutOfBoundsBowOnly(ship, w, mw, mh) == ~InBounds(DriftBow(ship, w), mw, mh)
DriftOutOfBounds(ship, w, mw, mh) ==
    ~InBounds(DriftBow(ship, w), mw, mh) \/ ~InBounds(DriftStern(ship, w), mw, mh)

\* apply_drift: the ship after the drift step
DriftShip(ship, w, mw, mh) ==
    IF ship.turns_without_bow_advance >= 2 /\ ~DriftOutOfBounds(ship, w, mw, mh)
    THEN [ship EXCEPT !.bow_hex = DriftBow(ship, w), !.stern_hex = DriftStern(ship, w),
                      !.turns_without_bow_advance = 0]
    ELSE ship

\* apply_drift: the events, in dict order of the ships
DriftEvent(ship, w, mw, mh, t) ==
    IF ship.turns_without_bow_advance < 2 THEN <<>>
    ELSE IF DriftOutOfBounds(ship, w, mw, mh)
        THEN <<EventLogEntry(t, "movement", "drift_blocked", [ship_id |-> ship.id])>>
    ELSE <<EventLogEntry(t, "movement", "drift",
              [ship_id |-> ship.id, old_bow |-> ship.bow_hex, new_bow |-> DriftBow(ship, w),
               old_stern |-> ship.stern_hex, new_stern |-> DriftStern(ship, w)])>>
RECURSIVE DriftEvents(_, _, _, _, _, _)
DriftEvents(sh, order, w, mw, mh, t) ==
    IF order = <<>> THEN <<>>
    ELSE DriftEvent(sh[Head(order)], w, mw, mh, t) \o DriftEvents(sh, Tail(order), w, mw, mh, t)

apply_drift(sh, w, mw, mh, t) ==
    [ships |-> [id \in DOMAIN sh |-> DriftShip(sh[id], w, mw, mh)],
     events |-> DriftEvents(sh, ShipOrder(sh), w, mw, mh, t)]

\* a drift step that leaves the counters as the collision step left them
check_and_apply_drift_untracked(sh, movement_result, w, mw, mh, t) ==
    apply_drift(sh, w, mw, mh, t)

\* check_and_apply_drift
check_and_apply_drift(sh, movement_result, w, mw, mh, t) ==
    apply_drift(update_drift_tracking(sh, movement_result), w, mw, mh, t)

\* ------------------------------------------------------------------ arc.py
\* default max_range of get_legal_targets and get_broadside_arc_hexes
DefaultMaxRange == 10

\* _get_broadside_directions: the three primary directions of a broadside
broadside_directions(f, b) ==
    IF b = "L"
    THEN CASE f = "N"  -> <<"W", "NW", "SW">>
           [] f = "NE" -> <<"NW", "N", "W">>
           [] f = "E"  -> <<"N", "NE", "NW">>
           [] f = "SE" -> <<"NE", "E", "N">>
           [] f = "S"  -> <<"E", "SE", "NE">>
           [] f = "SW" -> <<"SE", "S", "E">>
           [] f = "W"  -> <<"S", "SW", "SE">>
           [] f = "NW" -> <<"SW", "W", "S">>
    ELSE CASE f = "N"  -> <<"E", "NE", "SE">>
           [] f = "NE" -> <<"SE", "S", "E">>
           [] f = "E"  -> <<"S", "SE", "SW">>
           [] f = "SE" -> <<"SW", "W", "S">>
           [] f = "S"  -> <<"W", "SW", "NW">>
           [] f = "SW" -> <<"NW", "N", "W">>
           [] f = "W"  -> <<"N", "NW", "NE">>
           [] f = "NW" -> <<"NE", "E", "N">>

\* _get_adjacent_directions: previous and next in the clockwise list
all_directions == <<"N", "NE", "E", "SE", "S", "SW", "W", "NW">>
DirectionIndex(d) == CHOOSE i \in 1..8 : all_directions[i] = d
adjacent_directions(d) ==
    LET idx == DirectionIndex(d) - 1
    IN  << all_directions[((idx - 1) % 8) + 1], all_directions[((idx + 1) % 8) + 1] >>

\* _trace_arc_cone from step `distance` on: the hexes it adds. A neighbour
\* with a negative coordinate raises: on the centre line that ends the
\* trace, on a side hex it is skipped.
ValidHexes(S) == {h \in S : HexCoordValid(h)}
ConeSides(nxt, adj) == ValidHexes({get_adjacent_hex(nxt, adj[1]), get_adjacent_hex(nxt, adj[2])})
RECURSIVE trace_arc_cone(_, _, _, _)
TraceFrom(nxt, direction, distance, max_range) ==
    IF ~HexCoordValid(nxt) THEN {}
    ELSE {nxt} \cup (IF distance > 1 THEN ConeSides(nxt, adjacent_directions(direction)) ELSE {})
               \cup trace_arc_cone(nxt, direction, distance + 1, max_range)
trace_arc_cone(current, direction, distance, max_range) ==
    IF distance > max_range THEN {}
    ELSE TraceFrom(get_adjacent_hex(current, direction), direction, distance, max_range)

\* get_broadside_arc_hexes
ArcAlong(ship, dirs, max_range) ==
    UNION {trace_arc_cone(ship.bow_hex, dirs[i], 1, max_range) : i \in 1..3}
get_broadside_arc_hexes(ship, b, max_range) ==
    ArcAlong(ship, broadside_directions(ship.facing, b), max_range)

\* hex_distance through cube coordinates
offset_to_cube(h) ==
    <<h.col, h.row - ((h.col - (h.col % 2)) \div 2),
      0 - h.col - (h.row - ((h.col - (h.col % 2)) \div 2))>>
CubeDistance(a, b) == (Abs(a[1] - b[1]) + Abs(a[2] - b[2]) + Abs(a[3] - b[3])) \div 2
hex_distance(h1, h2) == CubeDistance(offset_to_cube(h1), offset_to_cube(h2))

\* ------------------------------------------------------------ targeting.py
\* get_ships_in_arc: the ships it lists, and the distance of the TargetInfo
\* it makes for one: to the bow if the bow is in the arc, else to the stern
ShipsInArc(arc_hexes, firing_ship, all_ships) ==
    {id \in DOMAIN all_ships :
        /\ all_ships[id].id # firing_ship.id
        /\ (all_ships[id].bow_hex \in arc_hexes \/ all_ships[id].stern_hex \in arc_hexes)}
TargetDistance(arc_hexes, firing_ship, ship) ==
    IF ship.bow_hex \in arc_hexes THEN hex_distance(firing_ship.bow_hex, ship.bow_hex)
    ELSE hex_distance(firing_ship.bow_hex, ship.stern_hex)
get_ships_in_arc(firing_ship, all_ships, b, max_range) ==
    ShipsInArc(get_broadside_arc_hexes(firing_ship, b, max_range), firing_ship, all_ships)

\* get_all_valid_targets: the enemies in arc that are not struck, at the
\* least distance among them
EnemyTargets(in_arc, firing_ship, all_ships) ==
    {id \in in_arc : all_ships[id].side # firing_ship.side /\ ~all_ships[id].struck}
ClosestEnemies(enemy_targets, arc_hexes, firing_ship, all_ships) ==
    {id \in enemy_targets :
        \A other \in enemy_targets :
            TargetDistance(arc_hexes, firing_ship, all_ships[id])
                <= TargetDistance(arc_hexes, firing_ship, all_ships[other])}
ValidTargetsIn(arc_hexes, firing_ship, all_ships) ==
    ClosestEnemies(EnemyTargets(ShipsInArc(arc_hexes, firing_ship, all_ships),
                                firing_ship, all_ships),
                   arc_hexes, firing_ship, all_ships)
get_all_valid_targets(firing_ship, all_ships, b, max_range) ==
    ValidTargetsIn(get_broadside_arc_hexes(firing_ship, b, max_range), firing_ship, all_ships)

\* --------------------------------------------------------------- combat.py
\* can_fire_broadside
can_fire_broadside(ship, b) ==
    /\ ~ship.struck
    /\ (IF b = "L" THEN ship.load_L ELSE ship.load_R) # EMPTY
    /\ (IF b = "L" THEN ship.guns_L ELSE ship.guns_R) > 0

\* a collection of targets that does not look at struck
EnemiesInStruckToo(arc_hexes, firing_ship, all_ships, max_range) ==
    {id \in DOMAIN all_ships :
        /\ all_ships[id].id # firing_ship.id
        /\ all_ships[id].side # firing_ship.side
        /\ (all_ships[id].bow_hex \in arc_hexes \/ all_ships[id].stern_hex \in arc_hexes)
        /\ hex_distance(firing_ship.bow_hex, all_ships[id].bow_hex) <= max_range}

\* get_legal_targets: the enemy ships in arc it collects, within max_range
EnemiesIn(arc_hexes, firing_ship, all_ships, max_range) ==
    {id \in DOMAIN all_ships :
        /\ all_ships[id].id # firing_ship.id
        /\ all_ships[id].side # firing_ship.side
        /\ ~all_ships[id].struck
        /\ (all_ships[id].bow_hex \in arc_hexes \/ all_ships[id].stern_hex \in arc_hexes)
        /\ hex_distance(firing_ship.bow_hex, all_ships[id].bow_hex) <= max_range}
enemy_ships_in_arc(firing_ship, all_ships, b, max_range) ==
    EnemiesIn(get_broadside_arc_hexes(firing_ship, b, max_range), firing_ship, all_ships,
              max_range)

\* get_legal_targets: the ids of the ships it returns
ClosestOf(cand, firing_ship, all_ships) ==
    {id \in cand :
        \A other \in cand :
            hex_distance(firing_ship.bow_hex, all_ships[id].bow_hex)
                <= hex_distance(firing_ship.bow_hex, all_ships[other].bow_hex)}
get_legal_targets(firing_ship, all_ships, b, max_range) ==
    ClosestOf(enemy_ships_in_arc(firing_ship, all_ships, b, max_range), firing_ship, all_ships)

\* HitTables.get_range_bracket with the brackets of tables/hit_tables.json
ShortRangeMax == 2
MediumRangeMax == 5
get_range_bracket(distance) ==
    IF distance <= ShortRangeMax THEN "short"
    ELSE IF distance <= MediumRangeMax THEN "medium" ELSE "long"

\* largest entries of the hit, crew casualty and gun damage tables
HitsPerDieMax == 2
CasualtiesPerDieMax == 2
GunDamagePerDieMax == 1

\* resolve_broadside_fire: the HitResults the dice can produce. One die per
\* gun gives 0..HitsPerDieMax hits; a hull aim with hits rolls one casualty
\* die per hit and, at short range, one gun damage die per hit.
HitResult(h, c, g, distance, range_bracket) ==
    [hits |-> h, crew_casualties |-> c, gun_damage |-> g, range |-> distance,
     range_bracket |-> range_bracket]
HitResultsAt(distance, range_bracket, num_guns, aim) ==
    UNION { UNION { { HitResult(h, c, g, distance, range_bracket) :
                          g \in (IF aim = "hull" /\ h > 0 /\ range_bracket = "short"
                                 THEN 0..(h * GunDamagePerDieMax) ELSE {0}) } :
                        c \in (IF aim = "hull" /\ h > 0
                               THEN 0..(h * CasualtiesPerDieMax) ELSE {0}) } :
                h \in 0..(num_guns * HitsPerDieMax) }
HitResultsAtDistance(distance, num_guns, aim) ==
    HitResultsAt(distance, get_range_bracket(distance), num_guns, aim)
HitResults(firing_ship, target_ship, b, aim) ==
    HitResultsAtDistance(hex_distance(firing_ship.bow_hex, target_ship.bow_hex),
                         IF b = "L" THEN firing_ship.guns_L ELSE firing_ship.guns_R, aim)

\* a hull or rigging track that is not held at 0
TrackDamageUnclamped(ship, hits, aim) ==
    IF aim = "hull" THEN [ship EXCEPT !.hull = @ - hits]
    ELSE [ship EXCEPT !.rigging = @ - hits]

\* apply_damage (combat.py): the target ship after the damage
TrackDamage(ship, hits, aim) ==
    IF aim = "hull" THEN [ship EXCEPT !.hull = Max(0, @ - hits)]
    ELSE [ship EXCEPT !.rigging = Max(0, @ - hits)]
CrewDamage(ship, casualties) ==
    IF casualties > 0 THEN [ship EXCEPT !.crew = Max(0, @ - casualties)] ELSE ship
SplitGunDamage(ship, gun_damage, damage_left) ==
    [ship EXCEPT !.guns_L = Max(0, @ - damage_left),
                 !.guns_R = Max(0, @ - (gun_damage - damage_left))]
GunDamage(ship, gun_damage) ==
    IF gun_damage > 0 /\ ship.guns_L + ship.guns_R > 0
    THEN SplitGunDamage(ship, gun_damage,
                        (gun_damage * ship.guns_L) \div (ship.guns_L + ship.guns_R))
    ELSE ship
StrikeCheck(ship) == IF ship.hull <= 0 THEN [ship EXCEPT !.struck = TRUE] ELSE ship
apply_damage(ship, hit_result, aim, b) ==
    StrikeCheck(GunDamage(CrewDamage(TrackDamage(ship, hit_result.hits, aim),
                                     hit_result.crew_casualties),
                          hit_result.gun_damage))

\* --------------------------------------------------------------- reload.py
\* reload_ship: both broadsides, EMPTY becomes ROUNDSHOT
reload_ship(ship) ==
    [ship EXCEPT !.load_L = IF @ = EMPTY THEN ROUNDSHOT ELSE @,
                 !.load_R = IF @ = EMPTY THEN ROUNDSHOT ELSE @]

\* a reload that refits every ship, struck ones included
reload_all_ships_refit(sh) ==
    [id \in DOMAIN sh |-> [reload_ship(sh[id]) EXCEPT !.struck = FALSE]]

\* reload_all_ships: struck ships are skipped
reload_all_ships(sh) ==
    [id \in DOMAIN sh |-> IF sh[id].struck THEN sh[id] ELSE reload_ship(sh[id])]

\* reload events only for the ships that had a broadside to reload
reload_events_needed(sh, t) ==
    LET ids == SelectSeq(ShipOrder(sh),
                         LAMBDA id : ~sh[id].struck
                                     /\ (sh[id].load_L = EMPTY \/ sh[id].load_R = EMPTY))
    IN  [i \in 1..Len(ids) |->
            EventLogEntry(t, "reload", "reload",
                [ship_id |-> ids[i],
                 left_reloaded |-> sh[ids[i]].load_L = EMPTY,
                 right_reloaded |-> sh[ids[i]].load_R = EMPTY])]

\* create_reload_event for every ReloadResult, in dict order
reload_events(sh, t) ==
    LET ids == SelectSeq(ShipOrder(sh), LAMBDA id : ~sh[id].struck)
    IN  [i \in 1..Len(ids) |->
            EventLogEntry(t, "reload", "reload",
                [ship_id |-> ids[i],
                 left_reloaded |-> sh[ids[i]].load_L = EMPTY,
                 right_reloaded |-> sh[ids[i]].load_R = EMPTY])]

\* -------------------------------------------------------------- victory.py
\* each check returns [game_ended, winner]
check_first_struck(sh) ==
    LET struck_ships == SelectSeq(ShipOrder(sh), LAMBDA id : sh[id].struck)
    IN  IF struck_ships = <<>> THEN [game_ended |-> FALSE, winner |-> None]
        ELSE [game_ended |-> TRUE,
              winner |-> IF sh[struck_ships[1]].side = "P1" THEN "P2" ELSE "P1"]

RECURSIVE SumHull(_, _)
SumHull(sh, ids) ==
    IF ids = {} THEN 0
    ELSE LET id == CHOOSE x \in ids : TRUE IN sh[id].hull + SumHull(sh, ids \ {id})

check_score_after_turns(sh, t, limit) ==
    IF limit = None \/ t < limit THEN [game_ended |-> FALSE, winner |-> None]
    ELSE LET p1_hull == SumHull(sh, get_ships_by_side(sh, "P1"))
             p2_hull == SumHull(sh, get_ships_by_side(sh, "P2"))
         IN  [game_ended |-> TRUE,
              winner |-> IF p1_hull > p2_hull THEN "P1"
                         ELSE IF p2_hull > p1_hull THEN "P2" ELSE None]

check_first_side_struck_two_ships(sh) ==
    LET p1_struck_count == Cardinality({id \in get_ships_by_side(sh, "P1") : sh[id].struck})
        p2_struck_count == Cardinality({id \in get_ships_by_side(sh, "P2") : sh[id].struck})
    IN  IF p1_struck_count >= 2 THEN [game_ended |-> TRUE, winner |-> "P2"]
        ELSE IF p2_struck_count >= 2 THEN [game_ended |-> TRUE, winner |-> "P1"]
        ELSE [game_ended |-> FALSE, winner |-> None]

check_victory_condition(sh, t, limit, victory_type) ==
    IF victory_type = "first_struck" THEN check_first_struck(sh)
    ELSE IF victory_type = "score_after_turns" THEN check_score_after_turns(sh, t, limit)
    ELSE check_first_side_struck_two_ships(sh)

\* ------------------------------------------------------ scenario_loader.py
\* _calculate_stern_hex: a fixed (col, row) offset per facing
loader_stern_offsets(f) ==
    CASE f = "N" -> <<0, 1>> [] f = "NE" -> <<-1, 1>> [] f = "E" -> <<-1, 0>>
      [] f = "SE" -> <<-1, -1>> [] f = "S" -> <<0, -1>> [] f = "SW" -> <<1, -1>>
      [] f = "W" -> <<1, 0>> [] f = "NW" -> <<1, 1>>
SternAt(bow, o) == HexCoord(bow.col + o[1], bow.row + o[2])
calculate_stern_hex(bow, f) == SternAt(bow, loader_stern_offsets(f))

\* a ship of a scenario file: one gun a side, speed 1
ScenarioShip(id, side, bow, f, hull, load) ==
    [id |-> id, side |-> side, battle_sail_speed |-> 1,
     start |-> [bow |-> HexCoord(bow[1], bow[2]), facing |-> f],
     guns |-> [L |-> 1, R |-> 1], hull |-> hull, rigging |-> 1, crew |-> 1, marines |-> 1,
     initial_load |-> load]

\* load_scenario_from_file accepts the scenario (validate_ships_in_bounds) and
\* initialize_game_from_scenario can build every HexCoord
ScenarioLoads(sc) ==
    \A i \in 1..Len(sc.ships) :
        /\ InBounds(sc.ships[i].start.bow, sc.map.width, sc.map.height)
        /\ HexCoordValid(calculate_stern_hex(sc.ships[i].start.bow, sc.ships[i].start.facing))

\* initialize_game_from_scenario: one Ship
initial_ship(ss) ==
    [id |-> ss.id, side |-> ss.side, bow_hex |-> ss.start.bow,
     stern_hex |-> calculate_stern_hex(ss.start.bow, ss.start.facing),
     facing |-> ss.start.facing, battle_sail_speed |-> ss.battle_sail_speed,
     guns_L |-> ss.guns.L, guns_R |-> ss.guns.R,
     hull |-> ss.hull, rigging |-> ss.rigging, crew |-> ss.crew,
     marines |-> ss.marines, load_L |-> ss.initial_load.L,
     load_R |-> ss.initial_load.R, fouled |-> FALSE, struck |-> FALSE,
     turns_without_bow_advance |-> 0]
\* initialize_game_from_scenario: the ships dict
initial_ships(sc) ==
    [id \in {sc.ships[i].id : i \in 1..Len(sc.ships)} |->
        initial_ship(sc.ships[CHOOSE i \in 1..Len(sc.ships) : sc.ships[i].id = id])]

Response(op, status) == [op |-> op, status |-> status]

\* initialize_game_from_scenario: the new game
NewGame(sc) ==
    /\ turn_number = 1
    /\ phase = "planning"
    /\ map_width = sc.map.width
    /\ map_height = sc.map.height
    /\ wind_direction = sc.wind
    /\ ships = initial_ships(sc)
    /\ p1_orders = NoOrders
    /\ p2_orders = NoOrders
    /\ event_log = <<>>
    /\ turn_limit = sc.turn_limit
    /\ victory_condition = sc.victory
    /\ game_ended = FALSE
    /\ winner = None
    /\ last_response = Response("create_game", 201)

\* ------------------------------------------------------- routers/games.py
\* A rejected call raises HTTPException before any assignment to the game.
Reject(op, status) ==
    /\ last_response' = Response(op, status)
    /\ UNCHANGED gamevars

\* the turn path parameter of a call: the current turn or a wrong one
TurnArgs == {turn_number, turn_number + 1}

\* movement strings of the well-formed requests: three legal ones and one
\* the parser refuses ("10")
MoveStrings == { <<"0">>, <<"1">>, <<"L">>, <<"1", "0">> }
ShipOrders(id, ms) == [ship_id |-> id, movement_string |-> ms]
\* a request body the request validation refuses (lower case)
MalformedOrders == <<ShipOrders("a1", <<"l">>)>>
\* request bodies: orders for any set of the game's ships, listed in the
\* order of their ids, and the malformed one
RECURSIVE OrderListsFrom(_)
PrependOrders(id, rest) ==
    rest \cup { <<ShipOrders(id, ms)>> \o r : ms \in MoveStrings, r \in rest }
OrderListsFrom(ids) ==
    IF ids = <<>> THEN { <<>> } ELSE PrependOrders(Head(ids), OrderListsFrom(Tail(ids)))
OrderLists == OrderListsFrom(ShipOrder(ships)) \cup {MalformedOrders}
TurnOrders(t, side, orders) ==
    [turn_number |-> t, side |-> side, orders |-> orders, submitted |-> TRUE]

\* SubmitOrdersRequest validation (422 before the handler runs)
SubmitOrdersRequestValid(orders) ==
    \A i \in 1..Len(orders) : MovementStringPattern(orders[i].movement_string)

\* a submit_orders that forgets the check for missing ships
SubmitOrdersCheckSubset(turn, orders, order_ship_ids, player_ships) ==
    IF ~SubmitOrdersRequestValid(orders) THEN 422
    ELSE IF turn # turn_number THEN 400
    ELSE IF phase # "planning" THEN 400
    ELSE IF ~(order_ship_ids \subseteq player_ships) THEN 400
    ELSE 200

\* submit_orders: the status it answers with
SubmitOrdersCheck(turn, orders, order_ship_ids, player_ships) ==
    IF ~SubmitOrdersRequestValid(orders) THEN 422
    ELSE IF turn # turn_number THEN 400
    ELSE IF phase # "planning" THEN 400
    ELSE IF ~(order_ship_ids \subseteq player_ships) THEN 400
    ELSE IF order_ship_ids # player_ships THEN 400
    ELSE 200
submit_orders_status(side, turn, orders) ==
    SubmitOrdersCheck(turn, orders, {orders[i].ship_id : i \in 1..Len(orders)},
                      get_ships_by_side(ships, side))

StoreOrders(side, turn_orders) ==
    /\ p1_orders' = IF side = "P1" THEN turn_orders ELSE p1_orders
    /\ p2_orders' = IF side = "P1" THEN p2_orders ELSE turn_orders
    /\ last_response' = Response("submit_orders", 200)
    /\ UNCHANGED <<turn_number, phase, map_width, map_height, wind_direction, ships,
                   event_log, turn_limit, victory_condition, game_ended, winner>>
SubmitOrdersAnswer(side, turn, orders, status) ==
    IF status # 200 THEN Reject("submit_orders", status)
    ELSE StoreOrders(side, TurnOrders(turn, side, orders))
submit_orders(side, turn, orders) ==
    SubmitOrdersAnswer(side, turn, orders, submit_orders_status(side, turn, orders))

\* The turn and phase checks come before the handler looks at the orders:
\* where one of them fails, two request bodies stand for all.
SubmitOrders ==
    \E side \in Side, turn \in TurnArgs :
        \E orders \in (IF turn = turn_number /\ phase = "planning" THEN OrderLists
                       ELSE { <<>>, MalformedOrders }) :
            submit_orders(side, turn, orders)

\* mark_ready: the status it answers with; the handler assigns nothing
mark_ready_status(turn, player_orders) ==
    IF turn # turn_number THEN 400
    ELSE IF phase # "planning" THEN 400
    ELSE IF player_orders = NoOrders THEN 400
    ELSE IF ~player_orders.submitted THEN 400
    ELSE 200
mark_ready(side, turn) ==
    /\ last_response' =
           Response("mark_ready",
                    mark_ready_status(turn, IF side = "P1" THEN p1_orders ELSE p2_orders))
    /\ UNCHANGED gamevars

MarkReady == \E side \in Side, turn \in TurnArgs : mark_ready(side, turn)

\* the try block of resolve_movement: every order parses and is within the
\* ship's allowance
OrderParses(parsed, ship) ==
    parsed.ok /\ validate_movement_within_allowance(parsed, ship.battle_sail_speed)
OrdersParse(all_orders) ==
    \A i \in 1..Len(all_orders) :
        /\ all_orders[i].ship_id \in DOMAIN ships
        /\ OrderParses(parse_movement(all_orders[i].movement_string),
                       ships[all_orders[i].ship_id])

\* the parsed_movements dict: keys in order of first insertion, last value wins
FirstOccurrences(ids) ==
    SelectSeq([i \in 1..Len(ids) |-> IF \E j \in 1..(i - 1) : ids[j] = ids[i]
                                     THEN None ELSE ids[i]],
              LAMBDA id : id # None)
ParsedOrder(all_orders) ==
    FirstOccurrences([i \in 1..Len(all_orders) |-> all_orders[i].ship_id])
parsed_movements(all_orders) ==
    [id \in {all_orders[i].ship_id : i \in 1..Len(all_orders)} |->
        parse_movement(all_orders[CHOOSE i \in 1..Len(all_orders) :
                           /\ all_orders[i].ship_id = id
                           /\ \A j \in (i + 1)..Len(all_orders) : all_orders[j].ship_id # id
                       ].movement_string)]

\* the movement events, one per entry of movement_result.ships_moved
movement_events(order, movements, ships_moved, t) ==
    [i \in 1..Len(order) |->
        EventLogEntry(t, "movement", "movement",
            [ship_id |-> order[i],
             movement_string |-> movements[order[i]].original_notation,
             bow_advanced |-> ships_moved[order[i]]])]

\* an execution that moves the game's own ships instead of a copy
ShipsOnFailureShared(sh, working_copy) == working_copy

\* what resolve_movement leaves in game.ships when the execution raises:
\* execute_simultaneous_movement works on a deep copy
ShipsOnFailure(sh, working_copy) == sh

ExecutionFailed(r) ==
    /\ ships' = ShipsOnFailure(ships, r.ships)
    /\ last_response' = Response("resolve_movement", 500)
    /\ UNCHANGED <<turn_number, phase, map_width, map_height, wind_direction,
                   p1_orders, p2_orders, event_log, turn_limit,
                   victory_condition, game_ended, winner>>

\* the last block of resolve_movement
CommitMovement(all_events, drifted_ships) ==
    /\ Len(event_log) + Len(all_events) <= LogLimit
    /\ ships' = drifted_ships
    /\ phase' = "combat"
    /\ event_log' = event_log \o all_events
    /\ last_response' = Response("resolve_movement", 200)
    /\ UNCHANGED <<turn_number, map_width, map_height, wind_direction,
                   p1_orders, p2_orders, turn_limit, victory_condition,
                   game_ended, winner>>
AfterDrift(events, d) == CommitMovement(events \o d.events, d.ships)
AfterCollisions(turn, events, r, c) ==
    AfterDrift(events \o c.events,
               check_and_apply_drift(c.ships, r.ships_moved, wind_direction,
                                     map_width, map_height, turn))
\* the dice and the set orders the collision step can meet
CollisionStep(turn, events, r, collisions) ==
    \E stern_first \in (IF collisions # <<>> THEN [DOMAIN ships -> BOOLEAN]
                        ELSE {[id \in DOMAIN ships |-> FALSE]}) :
        \E rolls \in [1..RollsNeeded(collisions, ships, r.ships) -> 1..6] :
            AfterCollisions(turn, events, r,
                detect_and_resolve_collisions(ships, r.ships, stern_first, rolls, turn))
AfterExecution(turn, movements, order, r) ==
    IF r.err THEN ExecutionFailed(r)
    ELSE CollisionStep(turn, movement_events(order, movements, r.ships_moved, turn), r,
                       detect_collisions(r.ships, [id \in DOMAIN ships |-> FALSE]))
ExecuteOrders(turn, movements, order) ==
    AfterExecution(turn, movements, order,
        execute_simultaneous_movement(ships, movements, order, map_width, map_height))
ResolveOrders(turn, all_orders) ==
    IF ~OrdersParse(all_orders) THEN Reject("resolve_movement", 400)
    ELSE ExecuteOrders(turn, parsed_movements(all_orders), ParsedOrder(all_orders))

\* a resolve_movement that asks only for P1's orders
resolve_movement_one_side(turn) ==
    IF turn # turn_number THEN Reject("resolve_movement", 400)
    ELSE IF phase # "planning" THEN Reject("resolve_movement", 400)
    ELSE IF p1_orders = NoOrders THEN Reject("resolve_movement", 400)
    ELSE ResolveOrders(turn, p1_orders.orders \o
                             (IF p2_orders = NoOrders THEN <<>> ELSE p2_orders.orders))

resolve_movement(turn) ==
    IF turn # turn_number THEN Reject("resolve_movement", 400)
    ELSE IF phase # "planning" THEN Reject("resolve_movement", 400)
    ELSE IF p1_orders = NoOrders \/ p2_orders = NoOrders THEN Reject("resolve_movement", 400)
    ELSE IF ~p1_orders.submitted \/ ~p2_orders.submitted THEN Reject("resolve_movement", 400)
    ELSE ResolveOrders(turn, p1_orders.orders \o p2_orders.orders)

ResolveMovement == \E turn \in TurnArgs : resolve_movement(turn)

\* fire_broadside: the status it answers with
TargetCheck(target_ship_id, legal_targets) ==
    IF legal_targets = {} THEN 400
    ELSE IF target_ship_id \notin legal_targets THEN 400
    ELSE 200
fire_broadside_status(turn, ship_id, b, target_ship_id) ==
    IF turn # turn_number THEN 400
    ELSE IF phase # "combat" THEN 400
    ELSE IF ship_id \notin DOMAIN ships THEN 404
    ELSE IF ~can_fire_broadside(ships[ship_id], b) THEN 400
    ELSE TargetCheck(target_ship_id,
                     get_legal_targets(ships[ship_id], ships, b, DefaultMaxRange))

\* a fire_broadside that empties the broadside that did not fire
MarkFiredOpposite(sh, ship_id, b) ==
    IF b = "L" THEN [sh EXCEPT ![ship_id].load_R = EMPTY]
    ELSE [sh EXCEPT ![ship_id].load_L = EMPTY]

\* the broadside fired is marked empty
MarkFired(sh, ship_id, b) ==
    IF b = "L" THEN [sh EXCEPT ![ship_id].load_L = EMPTY]
    ELSE [sh EXCEPT ![ship_id].load_R = EMPTY]
\* a fire_broadside that closes the combat phase
CommitFireEndingPhase(fired_ships, event) ==
    /\ Len(event_log) + 1 <= LogLimit
    /\ ships' = fired_ships
    /\ phase' = "reload"
    /\ event_log' = Append(event_log, event)
    /\ last_response' = Response("fire_broadside", 200)
    /\ UNCHANGED <<turn_number, map_width, map_height, wind_direction,
                   p1_orders, p2_orders, turn_limit, victory_condition,
                   game_ended, winner>>

\* the last block of fire_broadside
CommitFire(fired_ships, event) ==
    /\ Len(event_log) + 1 <= LogLimit
    /\ ships' = fired_ships
    /\ event_log' = Append(event_log, event)
    /\ last_response' = Response("fire_broadside", 200)
    /\ UNCHANGED <<turn_number, phase, map_width, map_height, wind_direction,
                   p1_orders, p2_orders, turn_limit, victory_condition,
                   game_ended, winner>>
ApplyFire(turn, ship_id, b, target_ship_id, aim, hit_result) ==
    CommitFire(
        MarkFired([ships EXCEPT ![target_ship_id] = apply_damage(@, hit_result, aim, b)],
                  ship_id, b),
        EventLogEntry(turn, "combat", "broadside_fire",
            [firing_ship_id |-> ship_id, target_ship_id |-> target_ship_id,
             broadside |-> b, aim |-> aim]))
FireAnswer(turn, ship_id, b, target_ship_id, aim, status) ==
    IF status # 200 THEN Reject("fire_broadside", status)
    ELSE \E hit_result \in HitResults(ships[ship_id], ships[target_ship_id], b, aim) :
             ApplyFire(turn, ship_id, b, target_ship_id, aim, hit_result)
fire_broadside(turn, ship_id, b, target_ship_id, aim) ==
    FireAnswer(turn, ship_id, b, target_ship_id, aim,
               fire_broadside_status(turn, ship_id, b, target_ship_id))

\* The turn and phase checks come before the handler looks at the request
\* body: where one of them fails, one body stands for all.
FireBroadside ==
    \E turn \in TurnArgs :
        \E ship_id \in (IF turn = turn_number /\ phase = "combat"
                        THEN Range(AllShipIds) ELSE {"a1"}),
           b \in (IF turn = turn_number /\ phase = "combat" THEN Broadside ELSE {"L"}),
           target_ship_id \in (IF turn = turn_number /\ phase = "combat"
                               THEN Range(AllShipIds) ELSE {"b1"}),
           aim \in (IF turn = turn_number /\ phase = "combat" THEN AimPoint ELSE {"hull"}) :
            fire_broadside(turn, ship_id, b, target_ship_id, aim)

\* a resolve_reload that assigns its events to the log instead of extending it
CommitReloadReplacing(all_events, reloaded_ships) ==
    /\ Len(event_log) + Len(all_events) <= LogLimit
    /\ ships' = reloaded_ships
    /\ phase' = "reload"
    /\ event_log' = all_events
    /\ last_response' = Response("resolve_reload", 200)
    /\ UNCHANGED <<turn_number, map_width, map_height, wind_direction, p1_orders,
                   p2_orders, turn_limit, victory_condition, game_ended, winner>>

\* the last block of resolve_reload
CommitReload(all_events, reloaded_ships) ==
    /\ Len(event_log) + Len(all_events) <= LogLimit
    /\ ships' = reloaded_ships
    /\ phase' = "reload"
    /\ event_log' = event_log \o all_events
    /\ last_response' = Response("resolve_reload", 200)
    /\ UNCHANGED <<turn_number, map_width, map_height, wind_direction, p1_orders,
                   p2_orders, turn_limit, victory_condition, game_ended, winner>>
resolve_reload(turn) ==
    IF turn # turn_number THEN Reject("resolve_reload", 400)
    ELSE IF phase # "combat" THEN Reject("resolve_reload", 400)
    ELSE CommitReload(reload_events(ships, turn), reload_all_ships(ships))

ResolveReload == \E turn \in TurnArgs : resolve_reload(turn)

\* an advance_turn without the phase check
advance_turn_any_phase(turn) ==
    IF turn # turn_number THEN Reject("advance_turn", 400)
    ELSE /\ turn_number' = turn_number + 1
         /\ p1_orders' = NoOrders
         /\ p2_orders' = NoOrders
         /\ phase' = "planning"
         /\ last_response' = Response("advance_turn", 200)
         /\ UNCHANGED <<map_width, map_height, wind_direction, ships, event_log, turn_limit,
                        victory_condition, game_ended, winner>>

\* an advance_turn that leaves the orders of the turn in place
advance_turn_keeping_orders(turn) ==
    IF turn # turn_number THEN Reject("advance_turn", 400)
    ELSE IF phase # "reload" THEN Reject("advance_turn", 400)
    ELSE /\ turn_number' = turn_number + 1
         /\ phase' = "planning"
         /\ last_response' = Response("advance_turn", 200)
         /\ UNCHANGED <<map_width, map_height, wind_direction, ships, p1_orders, p2_orders,
                        event_log, turn_limit, victory_condition, game_ended, winner>>

advance_turn(turn) ==
    IF turn # turn_number THEN Reject("advance_turn", 400)
    ELSE IF phase # "reload" THEN Reject("advance_turn", 400)
    ELSE /\ turn_number' = turn_number + 1
         /\ p1_orders' = NoOrders
         /\ p2_orders' = NoOrders
         /\ phase' = "planning"
         /\ last_response' = Response("advance_turn", 200)
         /\ UNCHANGED <<map_width, map_height, wind_direction, ships, event_log, turn_limit,
                        victory_condition, game_ended, winner>>

AdvanceTurn == \E turn \in TurnArgs : advance_turn(turn)

\* ------------------------------------------------------------- scenarios
\* the scenarios games are created from: two ships in each other's arcs,
\* and a single ship whose bow and stern lie in columns of different parity
DuelScenario ==
    [map |-> [width |-> 3, height |-> 3], wind |-> "NW", turn_limit |-> None,
     victory |-> "first_struck",
     ships |-> << ScenarioShip("a1", "P1", <<0, 1>>, "N", 1, [L |-> EMPTY, R |-> ROUNDSHOT]),
                  ScenarioShip("b1", "P2", <<2, 0>>, "N", 1, [L |-> EMPTY, R |-> EMPTY]) >>]
SoloScenario ==
    [map |-> [width |-> 3, height |-> 3], wind |-> "NW", turn_limit |-> None,
     victory |-> "first_struck",
     ships |-> << ScenarioShip("a1", "P1", <<1, 1>>, "E", 1,
                               [L |-> ROUNDSHOT, R |-> ROUNDSHOT]) >>]
Scenarios == {DuelScenario, SoloScenario}

Init == \E sc \in Scenarios : ScenarioLoads(sc) /\ NewGame(sc)

Next ==
    \/ SubmitOrders
    \/ MarkReady
    \/ ResolveMovement
    \/ FireBroadside
    \/ ResolveReload
    \/ AdvanceTurn

Spec == Init /\ [][Next]_vars

\* ------------------------------------------------ a game that has ended
\* The store hands out whatever snapshot was put into it; the persistent
\* store reads saved snapshots back at start-up. A snapshot with
\* game_ended = TRUE, winner P1, in the reload phase is the one
\* test_advance_turn_when_game_ended stores.
EndedGame(sc) ==
    /\ turn_number = 1
    /\ phase = "reload"
    /\ map_width = sc.map.width
    /\ map_height = sc.map.height
    /\ wind_direction = sc.wind
    /\ ships = initial_ships(sc)
    /\ p1_orders = NoOrders
    /\ p2_orders = NoOrders
    /\ event_log = <<>>
    /\ turn_limit = sc.turn_limit
    /\ victory_condition = sc.victory
    /\ game_ended = TRUE
    /\ winner = "P1"
    /\ last_response = Response("update_game", 200)

InitEnded == ScenarioLoads(DuelScenario) /\ EndedGame(DuelScenario)

SpecEnded == InitEnded /\ [][Next]_vars

\* --------------------------------------------- the combat phase of a fleet
\* Three ships on a 12 x 3 map: a1 in the first column with its starboard
\* broadside loaded, b1 anywhere east of it in the two upper rows, b2 in the
\* columns next to a1, on either side of the battle.
FleetColumns == 11
FleetNearColumns == 3
FleetBows(cols) == {<<c, r>> : c \in 1..cols, r \in 0..1}
FleetScenario(b1_bow, b2_bow, b2_side) ==
    [map |-> [width |-> 12, height |-> 3], wind |-> "N", turn_limit |-> None,
     victory |-> "first_struck",
     ships |-> << ScenarioShip("a1", "P1", <<0, 1>>, "N", 1, [L |-> EMPTY, R |-> ROUNDSHOT]),
                  ScenarioShip("b1", "P2", b1_bow, "N", 1, [L |-> EMPTY, R |-> EMPTY]),
                  ScenarioShip("b2", b2_side, b2_bow, "N", 1, [L |-> EMPTY, R |-> EMPTY]) >>]
FleetScenarios ==
    {FleetScenario(b1_bow, b2_bow, b2_side) :
        b1_bow \in FleetBows(FleetColumns), b2_bow \in FleetBows(FleetNearColumns),
        b2_side \in Side}

\* no hex of the scenario holds two ships
ShipsApart(sh) ==
    \A i, j \in DOMAIN sh : i # j => get_ship_hexes(sh[i]) \cap get_ship_hexes(sh[j]) = {}

\* the orders "0" for every ship of a side
HoldOrders(sh, side) ==
    SelectSeq([i \in 1..Len(ShipOrder(sh)) |-> ShipOrders(ShipOrder(sh)[i], <<"0">>)],
              LAMBDA o : sh[o.ship_id].side = side)

\* the snapshot of turn 1 after both sides ordered "0" for every ship and
\* resolve_movement answered: nothing moved, every ship counts one turn
\* without bow advance
CombatSnapshot(sc) ==
    /\ turn_number = 1
    /\ phase = "combat"
    /\ map_width = sc.map.width
    /\ map_height = sc.map.height
    /\ wind_direction = sc.wind
    /\ ships = update_drift_tracking(initial_ships(sc),
                                     [id \in DOMAIN initial_ships(sc) |-> FALSE])
    /\ p1_orders = TurnOrders(1, "P1", HoldOrders(initial_ships(sc), "P1"))
    /\ p2_orders = TurnOrders(1, "P2", HoldOrders(initial_ships(sc), "P2"))
    /\ event_log = movement_events(ShipOrder(initial_ships(sc)),
                       [id \in DOMAIN initial_ships(sc) |-> parse_movement(<<"0">>)],
                       [id \in DOMAIN initial_ships(sc) |-> FALSE], 1)
    /\ turn_limit = sc.turn_limit
    /\ victory_condition = sc.victory
    /\ game_ended = FALSE
    /\ winner = None
    /\ last_response = Response("resolve_movement", 200)

InitFleet ==
    \E sc \in FleetScenarios :
        ScenarioLoads(sc) /\ ShipsApart(initial_ships(sc)) /\ CombatSnapshot(sc)

\* the calls of a combat phase, up to the next planning phase
NextCombat ==
    \/ FireBroadside
    \/ ResolveReload
    \/ AdvanceTurn

SpecFleet == InitFleet /\ [][NextCombat]_vars

\* ------------------------------------------ the combat phase of a gunnery duel
\* Two ships within short range on a 3 x 3 map, each with the broadside that
\* bears on the other loaded. The tracks of b1 are drawn from the values a
\* scenario file may hold: hull and crew from 1, marines and guns from 0.
MaxHull == 2
MaxCrew == 2
MaxMarines == 1
MaxGuns == 1
GunneryScenario(hull, crew, marines, guns_L, guns_R) ==
    [map |-> [width |-> 3, height |-> 3], wind |-> "N", turn_limit |-> None,
     victory |-> "first_struck",
     ships |-> << ScenarioShip("a1", "P1", <<0, 1>>, "N", 1, [L |-> EMPTY, R |-> ROUNDSHOT]),
                  [ScenarioShip("b1", "P2", <<2, 0>>, "N", hull,
                                [L |-> ROUNDSHOT, R |-> ROUNDSHOT])
                       EXCEPT !.crew = crew, !.marines = marines,
                              !.guns = [L |-> guns_L, R |-> guns_R]] >>]

InitGunnery ==
    \E hull \in 1..MaxHull, crew \in 1..MaxCrew, marines \in 0..MaxMarines,
       guns_L \in 0..MaxGuns, guns_R \in 0..MaxGuns :
        /\ ScenarioLoads(GunneryScenario(hull, crew, marines, guns_L, guns_R))
        /\ CombatSnapshot(GunneryScenario(hull, crew, marines, guns_L, guns_R))

SpecGunnery == InitGunnery /\ [][NextCombat]_vars

\* ------------------------------------------- the first movement of a melee
\* Three ships at close quarters on a 4 x 5 map: b1 astern of a1 and b2 on
\* its beam, both one hex away from the stern hex of a1 and heading for it.
MeleeScenario ==
    [map |-> [width |-> 4, height |-> 5], wind |-> "N", turn_limit |-> None,
     victory |-> "first_struck",
     ships |-> << ScenarioShip("a1", "P1", <<2, 1>>, "N", 1, [L |-> EMPTY, R |-> EMPTY]),
                  ScenarioShip("b1", "P2", <<2, 3>>, "N", 1, [L |-> EMPTY, R |-> EMPTY]),
                  ScenarioShip("b2", "P2", <<1, 2>>, "E", 1, [L |-> EMPTY, R |-> EMPTY]) >>]

\* a1 astern of b1 and heading for its stern hex, b2 on the beam of a1 and
\* heading for the hex a1 has its bow in
ChaseScenario ==
    [map |-> [width |-> 4, height |-> 5], wind |-> "N", turn_limit |-> None,
     victory |-> "first_struck",
     ships |-> << ScenarioShip("a1", "P1", <<2, 3>>, "N", 1, [L |-> EMPTY, R |-> EMPTY]),
                  ScenarioShip("b1", "P2", <<2, 1>>, "N", 1, [L |-> EMPTY, R |-> EMPTY]),
                  ScenarioShip("b2", "P2", <<1, 3>>, "E", 1, [L |-> EMPTY, R |-> EMPTY]) >>]

InitMelee == \E sc \in {MeleeScenario, ChaseScenario} : ScenarioLoads(sc) /\ NewGame(sc)

\* the calls of a planning phase, up to the combat phase
NextMovement ==
    \/ SubmitOrders
    \/ MarkReady
    \/ ResolveMovement

SpecMelee == InitMelee /\ [][NextMovement]_vars

\* ------------------------------------- the second movement of a melee
\* The snapshot of turn 2 of the melee after a first turn in which a1 and b2
\* held, b1 ran into the stern hex of a1 and was displaced, the fouling roll
\* was 1, every ship reloaded and the turn was advanced.
FouledSnapshot(sc, first_ships) ==
    /\ turn_number = 2
    /\ phase = "planning"
    /\ map_width = sc.map.width
    /\ map_height = sc.map.height
    /\ wind_direction = sc.wind
    /\ ships = [id \in DOMAIN first_ships |->
                   [reload_ship(first_ships[id])
                        EXCEPT !.fouled = (id \in {"a1", "b1"}),
                               !.turns_without_bow_advance = IF id = "b1" THEN 0 ELSE 1]]
    /\ p1_orders = NoOrders
    /\ p2_orders = NoOrders
    /\ event_log =
          movement_events(ShipOrder(first_ships),
              [id \in DOMAIN first_ships |->
                  parse_movement(IF id = "b1" THEN <<"1">> ELSE <<"0">>)],
              [id \in DOMAIN first_ships |-> id = "b1"], 1)
          \o << EventLogEntry(1, "movement", "collision",
                    resolve_collision(first_ships["a1"].stern_hex, <<"a1", "b1">>,
                                      first_ships, 0)),
                EventLogEntry(1, "movement", "fouling_check",
                    check_fouling(<<"a1", "b1">>, 1)) >>
          \o reload_events(first_ships, 1)
    /\ turn_limit = sc.turn_limit
    /\ victory_condition = sc.victory
    /\ game_ended = FALSE
    /\ winner = None
    /\ last_response = Response("advance_turn", 200)

InitFouled ==
    ScenarioLoads(MeleeScenario) /\ FouledSnapshot(MeleeScenario, initial_ships(MeleeScenario))

SpecFouled == InitFouled /\ [][NextMovement]_vars

\* ---------------------------------- a first turn with longer movements
\* movement strings of up to three actions within a speed of 1
LongMoveStrings ==
    { <<"0">>, <<"1">>, <<"L", "1">>, <<"1", "R">>, <<"L", "L", "1">>, <<"R", "L", "R">> }
\* the new game of a scenario after both sides' submit_orders for turn 1
OrdersSnapshot(sc, ms) ==
    /\ turn_number = 1
    /\ phase = "planning"
    /\ map_width = sc.map.width
    /\ map_height = sc.map.height
    /\ wind_direction = sc.wind
    /\ ships = initial_ships(sc)
    /\ p1_orders = TurnOrders(1, "P1", <<ShipOrders("a1", ms["a1"])>>)
    /\ p2_orders = TurnOrders(1, "P2", <<ShipOrders("b1", ms["b1"]), ShipOrders("b2", ms["b2"])>>)
    /\ event_log = <<>>
    /\ turn_limit = sc.turn_limit
    /\ victory_condition = sc.victory
    /\ game_ended = FALSE
    /\ winner = None
    /\ last_response = Response("submit_orders", 200)

InitOrders ==
    \E ms \in [{"a1", "b1", "b2"} -> LongMoveStrings] :
        ScenarioLoads(MeleeScenario) /\ OrdersSnapshot(MeleeScenario, ms)

SpecOrders == InitOrders /\ [][ResolveMovement]_vars

\* ================================================================ claims
Accepted(op) == Response(op, 200)

\* C1: once game_ended is true, every call is refused and leaves the game
\* unchanged (checked under SpecEnded).
EndedGameFrozen ==
    [][game_ended => (last_response'.status # 200 /\ UNCHANGED gamevars)]_vars

\* C2: after every successful fire_broadside and resolve_reload, if the
\* configured victory condition holds on the resulting snapshot, then that
\* snapshot has game_ended = TRUE, the winner set and a game_end event last
\* in the log.
VictoryEvaluated ==
    [][(/\ last_response' \in {Accepted("fire_broadside"), Accepted("resolve_reload")}
        /\ check_victory_condition(ships', turn_number', turn_limit',
                                   victory_condition').game_ended)
       => (/\ game_ended'
           /\ winner' = check_victory_condition(ships', turn_number', turn_limit',
                                                victory_condition').winner
           /\ event_log' # <<>>
           /\ event_log'[Len(event_log')].event_type = "game_end")]_vars

\* C3: the phase changes only along planning -> combat (resolve_movement),
\* combat -> reload (resolve_reload) and reload -> planning (advance_turn);
\* each of the three operations succeeds only from its own phase, and no
\* snapshot has phase movement.
PhaseEdge(from, to, op) == phase = from /\ phase' = to /\ last_response' = Accepted(op)
PhaseEdges ==
    [][/\ phase' # "movement"
       /\ phase' # phase =>
            \/ PhaseEdge("planning", "combat", "resolve_movement")
            \/ PhaseEdge("combat", "reload", "resolve_reload")
            \/ PhaseEdge("reload", "planning", "advance_turn")
       /\ last_response' = Accepted("resolve_movement") =>
            PhaseEdge("planning", "combat", "resolve_movement")
       /\ last_response' = Accepted("resolve_reload") =>
            PhaseEdge("combat", "reload", "resolve_reload")
       /\ last_response' = Accepted("advance_turn") =>
            PhaseEdge("reload", "planning", "advance_turn")]_vars
\* a second turn's planning phase, entered by advance_turn
PhaseCycleClosed ==
    phase = "planning" /\ turn_number = 2 /\ last_response = Accepted("advance_turn")

\* C4: a submit_orders call that succeeds was made in the planning phase,
\* for the current turn, with orders for exactly the ships of the submitting
\* side; every other submission is rejected.
OrderShipIds(orders) == {orders[i].ship_id : i \in 1..Len(orders)}
SubmitOnlyWhenValid ==
    [][last_response' = Accepted("submit_orders") =>
          \A side \in Side, turn \in TurnArgs, orders \in OrderLists :
              submit_orders(side, turn, orders) =>
                  /\ phase = "planning"
                  /\ turn = turn_number
                  /\ OrderShipIds(orders) = get_ships_by_side(ships, side)]_vars
\* P2 has submitted orders for its ship, P1 has not yet
OrdersAccepted ==
    /\ last_response = Accepted("submit_orders")
    /\ p1_orders = NoOrders
    /\ p2_orders # NoOrders
    /\ p2_orders.orders # <<>>

\* C5: resolve_movement succeeds only if the orders of both sides are
\* present, submitted and for the current turn; when a side has not
\* submitted the call is rejected, the phase stays planning and the ships
\* stay where they are.
OrdersIn(o) == o # NoOrders /\ o.submitted /\ o.turn_number = turn_number
ResolveNeedsBothOrders ==
    [][last_response'.op = "resolve_movement" =>
          /\ last_response'.status = 200 => OrdersIn(p1_orders) /\ OrdersIn(p2_orders)
          /\ ~(OrdersIn(p1_orders) /\ OrdersIn(p2_orders)) =>
                /\ last_response'.status # 200
                /\ (phase = "planning" => phase' = "planning")
                /\ ships' = ships]_vars
\* resolve_movement was called, and refused, with only P1's orders in
ResolveRefusedWithoutP2 ==
    /\ last_response = Response("resolve_movement", 400)
    /\ phase = "planning"
    /\ p1_orders # NoOrders
    /\ p2_orders = NoOrders

\* C6: a call that fails leaves ships, phase, turn number, orders and event
\* log exactly as they were.
FailedCallChangesNothing ==
    [][last_response'.status # 200 =>
          UNCHANGED <<ships, phase, turn_number, p1_orders, p2_orders, event_log>>]_vars
\* resolve_movement failed in the execution after a1, first in the order,
\* had made its forward move on the working copy
ExecutionFailedPartWay ==
    /\ last_response = Response("resolve_movement", 500)
    /\ "b1" \in DOMAIN ships
    /\ turn_number = 1
    /\ p1_orders.orders = <<ShipOrders("a1", <<"1">>)>>
    /\ p2_orders.orders = <<ShipOrders("b1", <<"1">>)>>

\* C7: the event log before a call is a prefix of the event log after it.
EventLogAppendOnly ==
    [][/\ Len(event_log') >= Len(event_log)
       /\ SubSeq(event_log', 1, Len(event_log)) = event_log]_vars
\* a log that grew by movement, fire and reload events, in that order
LogGrewThroughTurn ==
    /\ last_response = Accepted("resolve_reload")
    /\ Len(event_log) >= 4
    /\ event_log[1].event_type = "movement"
    /\ \E i \in 1..Len(event_log) : event_log[i].event_type = "broadside_fire"
    /\ event_log[Len(event_log)].event_type = "reload"

\* C8: in every snapshot, the stern of every ship is the hex adjacent to
\* its bow in the direction opposite its facing.
SternBehindBow ==
    \A id \in DOMAIN ships :
        ships[id].stern_hex = calculate_stern_from_bow(ships[id].bow_hex, ships[id].facing)

\* the enemy, non-struck ships with bow or stern in the arc of a broadside
InArcEnemies(firing_ship, b) ==
    {id \in DOMAIN ships :
        /\ ships[id].side # firing_ship.side
        /\ ~ships[id].struck
        /\ \/ ships[id].bow_hex \in get_broadside_arc_hexes(firing_ship, b, DefaultMaxRange)
           \/ ships[id].stern_hex \in get_broadside_arc_hexes(firing_ship, b, DefaultMaxRange)}
\* those of them at the minimum distance
ClosestInArc(firing_ship, b) ==
    {id \in InArcEnemies(firing_ship, b) :
        \A other \in InArcEnemies(firing_ship, b) :
            hex_distance(firing_ship.bow_hex, ships[id].bow_hex)
                <= hex_distance(firing_ship.bow_hex, ships[other].bow_hex)}

\* C9: in the combat phase, a broadside that can fire is accepted for
\* exactly the enemy, non-struck ships in its arc at the minimum distance
\* over all such ships: every ship at that minimum is accepted, every other
\* target is rejected (checked under SpecFleet).
ClosestTargetRule ==
    \A ship_id \in DOMAIN ships, b \in Broadside, target_ship_id \in DOMAIN ships :
        (phase = "combat" /\ can_fire_broadside(ships[ship_id], b)) =>
            (fire_broadside_status(turn_number, ship_id, b, target_ship_id) = 200
                <=> target_ship_id \in ClosestInArc(ships[ship_id], b))

\* C10: whenever an enemy, non-struck ship has its bow or its stern in the
\* arc of a broadside, the legal targets of that broadside are not empty
\* (checked under SpecFleet).
LegalTargetsNonEmpty ==
    \A ship_id \in DOMAIN ships, b \in Broadside :
        InArcEnemies(ships[ship_id], b) # {} =>
            get_legal_targets(ships[ship_id], ships, b, DefaultMaxRange) # {}

\* the load of a broadside of a ship
LoadOf(ship, b) == IF b = "L" THEN ship.load_L ELSE ship.load_R

\* C11: a successful fire_broadside is made with a loaded broadside and
\* leaves that broadside EMPTY; a broadside that is EMPTY stays EMPTY over
\* every call but a successful resolve_reload, so that a second fire of the
\* same ship and broadside in the same turn is rejected.
FiredBroadsideStaysEmpty ==
    [][/\ last_response' = Accepted("fire_broadside") =>
            /\ event_log' # <<>>
            /\ LoadOf(ships[event_log'[Len(event_log')].metadata.firing_ship_id],
                      event_log'[Len(event_log')].metadata.broadside) # EMPTY
            /\ LoadOf(ships'[event_log'[Len(event_log')].metadata.firing_ship_id],
                      event_log'[Len(event_log')].metadata.broadside) = EMPTY
       /\ last_response' # Accepted("resolve_reload") =>
            \A id \in DOMAIN ships, b \in Broadside :
                LoadOf(ships[id], b) = EMPTY => LoadOf(ships'[id], b) = EMPTY
       /\ \A id \in DOMAIN ships, b \in Broadside, target_ship_id \in DOMAIN ships :
            (phase = "combat" /\ LoadOf(ships[id], b) = EMPTY) =>
                fire_broadside_status(turn_number, id, b, target_ship_id) # 200]_vars
\* a1 has fired its starboard broadside this turn and a further
\* fire_broadside call of the same combat phase was rejected
SecondFireRejected ==
    /\ last_response = Response("fire_broadside", 400)
    /\ phase = "combat"
    /\ event_log # <<>>
    /\ event_log[Len(event_log)].event_type = "broadside_fire"
    /\ event_log[Len(event_log)].turn_number = turn_number
    /\ event_log[Len(event_log)].metadata.firing_ship_id = "a1"
    /\ event_log[Len(event_log)].metadata.broadside = "R"
    /\ ships["a1"].load_R = EMPTY

\* C12: a ship that is struck before a call is struck after it, whatever
\* the call: orders, movement with its collisions and drift, fire, reload or
\* turn advance.
StruckIsMonotonic ==
    [][\A id \in DOMAIN ships : ships[id].struck => ships'[id].struck]_vars
\* a struck ship has been carried through the reload of its turn and through
\* the movement of the next turn
StruckShipMovedOn ==
    /\ last_response = Accepted("resolve_movement")
    /\ turn_number > 1
    /\ \E id \in DOMAIN ships : ships[id].struck

\* the struck enemies with bow or stern in the arc of a broadside
StruckInArc(firing_ship, b) ==
    {id \in DOMAIN ships :
        /\ ships[id].side # firing_ship.side
        /\ ships[id].struck
        /\ \E h \in get_ship_hexes(ships[id]) :
              h \in get_broadside_arc_hexes(firing_ship, b, DefaultMaxRange)}

\* C13: fire_broadside accepts no request whose firing ship or whose target
\* is struck, and a successful resolve_reload leaves both loads of every
\* struck ship as they were.
StruckShipsOutOfCombat ==
    [][/\ last_response' = Accepted("fire_broadside") =>
            /\ ~ships[event_log'[Len(event_log')].metadata.firing_ship_id].struck
            /\ ~ships[event_log'[Len(event_log')].metadata.target_ship_id].struck
       /\ \A id \in DOMAIN ships, b \in Broadside, target_ship_id \in DOMAIN ships :
            (ships[id].struck \/ ships[target_ship_id].struck) =>
                fire_broadside_status(turn_number, id, b, target_ship_id) # 200
       /\ last_response' = Accepted("resolve_reload") =>
            \A id \in DOMAIN ships :
                ships[id].struck =>
                    /\ ships'[id].load_L = ships[id].load_L
                    /\ ships'[id].load_R = ships[id].load_R]_vars
\* in the turn after it struck, with its load still EMPTY after the reload,
\* a ship lies in the arc of a loaded enemy broadside and a fire_broadside
\* call was rejected
StruckTargetRefused ==
    /\ last_response = Response("fire_broadside", 400)
    /\ phase = "combat"
    /\ turn_number > 1
    /\ \E id \in DOMAIN ships, b \in Broadside :
          /\ can_fire_broadside(ships[id], b)
          /\ \E t \in StruckInArc(ships[id], b) : ships[t].load_L = EMPTY

\* the target of the broadside_fire event a step appends
FireTarget == event_log'[Len(event_log')].metadata.target_ship_id
FireAim == event_log'[Len(event_log')].metadata.aim

\* C14: after a successful fire_broadside the target is struck exactly when
\* it was struck before, or its hull went from above 0 to 0, or its crew and
\* marines together are 0 after the damage.
StruckExactlyWhenSpecified ==
    [][last_response' = Accepted("fire_broadside") =>
          (ships'[FireTarget].struck <=>
              \/ ships[FireTarget].struck
              \/ (ships[FireTarget].hull > 0 /\ ships'[FireTarget].hull = 0)
              \/ ships'[FireTarget].crew + ships'[FireTarget].marines = 0)]_vars

\* C15: in every snapshot every ship has hull, rigging, crew, marines,
\* guns_L and guns_R at or above 0, whatever a broadside did to it.
TracksNonNegative ==
    \A id \in DOMAIN ships :
        /\ ships[id].hull >= 0
        /\ ships[id].rigging >= 0
        /\ ships[id].crew >= 0
        /\ ships[id].marines >= 0
        /\ ships[id].guns_L >= 0
        /\ ships[id].guns_R >= 0
\* broadsides have brought the rigging of b1 and the hull and crew of a1
\* down to 0
TracksHeldAtZero ==
    /\ last_response = Accepted("fire_broadside")
    /\ ships["b1"].rigging = 0
    /\ ships["a1"].hull = 0
    /\ ships["a1"].crew = 0

\* the smaller of two numbers
Least(a, b) == IF a <= b THEN a ELSE b
\* crew and marines of a ship after c casualties that fall on the marines
\* first
MarinesFirst(ship, c) ==
    [marines |-> ship.marines - Least(c, ship.marines),
     crew |-> ship.crew - Least(c - Least(c, ship.marines), ship.crew)]

\* C16: a successful fire_broadside aimed at the hull takes its c crew
\* casualties from the target's marines first, min(c, marines) of them, and
\* from its crew only what is left, min(c - marines killed, crew).
CasualtiesMarinesFirst ==
    [][(last_response' = Accepted("fire_broadside") /\ FireAim = "hull") =>
          \E c \in 0..(ships[FireTarget].crew + ships[FireTarget].marines) :
              /\ ships'[FireTarget].marines = MarinesFirst(ships[FireTarget], c).marines
              /\ ships'[FireTarget].crew = MarinesFirst(ships[FireTarget], c).crew]_vars

\* the guns left on the two broadsides when gun damage g is taken one gun at
\* a time, the even steps from L and the odd steps from R, each from the
\* other side when its own has none; i counts the steps done
RECURSIVE AlternateGuns(_, _, _, _)
AlternateGuns(guns_L, guns_R, g, i) ==
    IF i >= g \/ guns_L + guns_R = 0 THEN [L |-> guns_L, R |-> guns_R]
    ELSE IF (i % 2 = 0 /\ guns_L > 0) \/ guns_R = 0
         THEN AlternateGuns(guns_L - 1, guns_R, g, i + 1)
         ELSE AlternateGuns(guns_L, guns_R - 1, g, i + 1)
\* the guns apply_damage leaves to a ship
GunsAfter(ship) == [L |-> ship.guns_L, R |-> ship.guns_R]

\* C17: gun damage g applied to a ship removes guns alternately from L and
\* R, starting with L, until g guns are gone or the ship has none: in all
\* min(g, guns_L + guns_R) guns, the odd one from L.
GunDamageAlternates ==
    \A id \in DOMAIN ships, b \in Broadside :
        \A g \in 0..(ships[id].guns_L + ships[id].guns_R + 1) :
            GunsAfter(apply_damage(ships[id], HitResult(1, 0, g, 1, "short"), "hull", b))
                = AlternateGuns(ships[id].guns_L, ships[id].guns_R, g, 0)

\* C18: damage aimed at the rigging changes the rigging of the target and
\* nothing else, whatever crew casualties and gun damage the hit result
\* carries.
RiggingAimOnlyRigging ==
    \A id \in DOMAIN ships, b \in Broadside :
        \A h \in 0..HitsPerDieMax, c \in 0..CasualtiesPerDieMax, g \in 0..GunDamagePerDieMax :
            apply_damage(ships[id], HitResult(h, c, g, 1, "short"), "rigging", b)
                = [ships[id] EXCEPT !.rigging = Max(0, @ - h)]

\* the positions of the events a step appends to the log
Appended == (Len(event_log) + 1)..Len(event_log')

\* C19: after a successful resolve_reload every ship that is not struck has
\* ROUNDSHOT on both broadsides, and the call has appended exactly one
\* reload event for each ship that is not struck, also for a ship that had
\* nothing to reload.
ReloadLoadsEveryShip ==
    [][last_response' = Accepted("resolve_reload") =>
          /\ \A id \in DOMAIN ships :
                ~ships[id].struck =>
                    /\ ships'[id].load_L = ROUNDSHOT
                    /\ ships'[id].load_R = ROUNDSHOT
                    /\ Cardinality({i \in Appended :
                            /\ event_log'[i].event_type = "reload"
                            /\ event_log'[i].metadata.ship_id = id}) = 1
          /\ Cardinality(Appended) = Cardinality({id \in DOMAIN ships : ~ships[id].struck})]_vars
\* a resolve_reload has reloaded the fired broadside of a1 and has logged a
\* reload event for b1, which had both broadsides loaded
ReloadedWithIdleShip ==
    /\ last_response = Accepted("resolve_reload")
    /\ ~ships["a1"].struck
    /\ ships["a1"].load_R = ROUNDSHOT
    /\ \E i, j \in 1..Len(event_log) :
          /\ event_log[i].event_type = "reload"
          /\ event_log[i].metadata.ship_id = "a1"
          /\ event_log[i].metadata.right_reloaded
          /\ event_log[j].event_type = "reload"
          /\ event_log[j].metadata.ship_id = "b1"
          /\ ~event_log[j].metadata.left_reloaded
          /\ ~event_log[j].metadata.right_reloaded

\* bow, stern and facing of a ship
Pose(ship) == <<ship.bow_hex, ship.stern_hex, ship.facing>>
\* one stationary ship and one mover or more met in the hex of a collision
\* event: the stationary ship is the occupant and holds the hex, the movers
\* are the displaced ships and are back in the pose they had before the turn
StationaryKeepsHex(resolution, already, moved) ==
    (Len(already) = 1 /\ Len(moved) >= 1) =>
        /\ resolution.occupying_ship_id = already[1]
        /\ resolution.collision_hex \in get_ship_hexes(ships'[already[1]])
        /\ Range(resolution.displaced_ship_ids) = Range(moved)
        /\ \A id \in Range(moved) : Pose(ships'[id]) = Pose(ships[id])

\* C20: where a collision hex holds exactly one ship that occupied it before
\* the movement and one or more ships that moved into it, the stationary
\* ship stays the occupant and every mover has the bow, stern and facing it
\* had before the turn.
StationaryPriority ==
    [][last_response' = Accepted("resolve_movement") =>
          \A i \in Appended :
              event_log'[i].event_type = "collision" =>
                  StationaryKeepsHex(event_log'[i].metadata,
                      ships_already_here(event_log'[i].metadata.collision_hex,
                          event_log'[i].metadata.ship_ids_involved, ships),
                      ships_that_moved_here(event_log'[i].metadata.collision_hex,
                          event_log'[i].metadata.ship_ids_involved, ships))]_vars
\* b1 and b2 both moved into the stern hex of a1, which held its place:
\* both are back where they started
TwoMoversDisplaced ==
    /\ last_response = Accepted("resolve_movement")
    /\ \E i \in 1..Len(event_log) :
          /\ event_log[i].event_type = "collision"
          /\ event_log[i].metadata.resolution_method = "stationary_priority"
          /\ event_log[i].metadata.occupying_ship_id = "a1"
          /\ Range(event_log[i].metadata.displaced_ship_ids) = {"b1", "b2"}
    /\ Pose(ships["b1"]) = Pose(initial_ships(MeleeScenario)["b1"])
    /\ Pose(ships["b2"]) = Pose(initial_ships(MeleeScenario)["b2"])

\* the positions of the events of one type among those a step appends
AppendedOfType(type) == {i \in Appended : event_log'[i].event_type = type}

\* C21: resolve_movement logs exactly one fouling_check event per collision;
\* where its roll is 1, 2 or 3 every ship of that collision is fouled in the
\* snapshot the call produces, and a ship that was not fouled before is
\* fouled after only if such a roll fell on a collision it was in.
FoulingFollowsRoll ==
    [][last_response' = Accepted("resolve_movement") =>
          /\ Cardinality(AppendedOfType("fouling_check"))
                = Cardinality(AppendedOfType("collision"))
          /\ \A i \in AppendedOfType("fouling_check") :
                /\ event_log'[i].metadata.fouled <=> event_log'[i].metadata.roll <= 3
                /\ event_log'[i].metadata.roll <= 3 =>
                      \A id \in Range(event_log'[i].metadata.ship_ids) : ships'[id].fouled
          /\ \A id \in DOMAIN ships :
                (ships'[id].fouled /\ ~ships[id].fouled) =>
                    \E i \in AppendedOfType("fouling_check") :
                        /\ event_log'[i].metadata.roll <= 3
                        /\ id \in Range(event_log'[i].metadata.ship_ids)]_vars

\* the fouling checks of a step whose flag a ship keeps: rolls of 1-3 on a
\* collision the ship was in, with no later collision of the step displacing
\* the ship
FoulingKept(id) ==
    {i \in AppendedOfType("fouling_check") :
        /\ event_log'[i].metadata.roll <= 3
        /\ id \in Range(event_log'[i].metadata.ship_ids)
        /\ \A j \in AppendedOfType("collision") :
              j > i => id \notin Range(event_log'[j].metadata.displaced_ship_ids)}

\* C21 as the code has it: one fouling_check event per collision, fouling on
\* a roll of 1, 2 or 3; a ship is fouled in the snapshot resolve_movement
\* produces exactly when it was fouled before or such a roll fell on a
\* collision it was in and no later collision of the same call displaced it.
FoulingFollowsRollUnlessRestored ==
    [][last_response' = Accepted("resolve_movement") =>
          /\ Cardinality(AppendedOfType("fouling_check"))
                = Cardinality(AppendedOfType("collision"))
          /\ \A i \in AppendedOfType("fouling_check") :
                event_log'[i].metadata.fouled <=> event_log'[i].metadata.roll <= 3
          /\ \A id \in DOMAIN ships :
                ships'[id].fouled <=> (ships[id].fouled \/ FoulingKept(id) # {})]_vars
\* a1 was fouled with b2 by a roll of 1-3, was then displaced by its
\* collision with b1, whose roll was 4-6, and is not fouled; b2 is
FlagLostToRestore ==
    /\ last_response = Accepted("resolve_movement")
    /\ ~ships["a1"].fouled
    /\ ships["b2"].fouled
    /\ \E i, j \in 1..Len(event_log) :
          /\ i < j
          /\ event_log[i].event_type = "fouling_check"
          /\ event_log[i].metadata.roll <= 3
          /\ event_log[i].metadata.ship_ids = <<"a1", "b2">>
          /\ event_log[j].event_type = "collision"
          /\ event_log[j].metadata.displaced_ship_ids = <<"a1">>

\* C22: a ship that is fouled in the snapshot before a call is fouled in
\* the snapshot after it, also when the call displaces the ship and puts it
\* back from its copy of before the movement.
FouledNeverCleared ==
    [][\A id \in DOMAIN ships : ships[id].fouled => ships'[id].fouled]_vars
\* b1, fouled in turn 1, ran into a1 again in turn 2, was displaced and is
\* still fouled
FouledShipDisplaced ==
    /\ last_response = Accepted("resolve_movement")
    /\ turn_number = 2
    /\ ships["b1"].fouled
    /\ \E i \in 1..Len(event_log) :
          /\ event_log[i].turn_number = 2
          /\ event_log[i].event_type = "collision"
          /\ "b1" \in Range(event_log[i].metadata.displaced_ship_ids)
          /\ \E j \in 1..Len(event_log) :
                /\ j > i
                /\ event_log[j].event_type = "fouling_check"
                /\ ~event_log[j].metadata.fouled

\* what the movement events a call appended say of a ship's bow, the counter
\* the call tracks for the ship from it, and the drift events of the ship
BowAdvanced(id) ==
    \E i \in AppendedOfType("movement") :
        event_log'[i].metadata.ship_id = id /\ event_log'[i].metadata.bow_advanced
Tracked(id) == IF BowAdvanced(id) THEN 0 ELSE ships[id].turns_without_bow_advance + 1
DriftOf(id, type) == {i \in AppendedOfType(type) : event_log'[i].metadata.ship_id = id}
Downwind(h) == get_adjacent_hex(h, get_downwind_direction(wind_direction))

\* C23: resolve_movement sets a ship's counter to 0 if its bow advanced and
\* adds 1 to it otherwise. A ship whose counter is then below 2 does not
\* drift and keeps that counter. A ship whose counter is then 2 or more gets
\* one drift or drift_blocked event; with both downwind hexes on the map it
\* is the drift event, and the ship's bow and stern are each one hex
\* downwind of where the movement left them, its facing is the one the
\* movement left it and its counter is 0.
DriftAfterTwoIdleTurns ==
    [][last_response' = Accepted("resolve_movement") =>
          \A id \in DOMAIN ships :
             IF Tracked(id) < 2
             THEN /\ DriftOf(id, "drift") = {}
                  /\ DriftOf(id, "drift_blocked") = {}
                  /\ ships'[id].turns_without_bow_advance = Tracked(id)
             ELSE /\ Cardinality(DriftOf(id, "drift")) + Cardinality(DriftOf(id, "drift_blocked")) = 1
                  /\ DriftOf(id, "drift_blocked") # {} =>
                        DriftOutOfBounds(ships'[id], wind_direction, map_width, map_height)
                  /\ \A i \in DriftOf(id, "drift") :
                        /\ event_log'[i].metadata.old_bow = ships[id].bow_hex
                        /\ ships'[id].bow_hex = Downwind(ships[id].bow_hex)
                        /\ ships'[id].stern_hex = Downwind(event_log'[i].metadata.old_stern)
                        /\ InBounds(ships'[id].bow_hex, map_width, map_height)
                        /\ InBounds(ships'[id].stern_hex, map_width, map_height)
                        /\ \/ /\ ships'[id].facing = ships[id].facing
                              /\ event_log'[i].metadata.old_stern = ships[id].stern_hex
                           \/ event_log'[i].metadata.old_stern
                                 = calculate_stern_from_bow(ships[id].bow_hex, ships'[id].facing)
                        /\ ships'[id].turns_without_bow_advance = 0]_vars
\* in turn 2 a1, idle for the second turn, has drifted one hex downwind and
\* counts from 0, while b2 advanced and b1 counts its first idle turn
OneShipDrifted ==
    /\ last_response = Accepted("resolve_movement")
    /\ turn_number = 2
    /\ \E i \in 1..Len(event_log) :
          /\ event_log[i].turn_number = 2
          /\ event_log[i].event_type = "drift"
          /\ event_log[i].metadata.ship_id = "a1"
          /\ ships["a1"].bow_hex = event_log[i].metadata.new_bow
          /\ ships["a1"].bow_hex # event_log[i].metadata.old_bow
    /\ ships["a1"].turns_without_bow_advance = 0
    /\ ships["b1"].turns_without_bow_advance = 1
    /\ \E i \in 1..Len(event_log) :
          /\ event_log[i].turn_number = 2
          /\ event_log[i].event_type = "movement"
          /\ event_log[i].metadata.ship_id = "b2"
          /\ event_log[i].metadata.bow_advanced

\* C24: a ship due to drift whose downwind bow or stern hex is off the map
\* stays where the movement left it and keeps its counter, and the call logs
\* drift_blocked for it and no drift; a drift event is only logged for a move
\* from hexes whose downwind neighbours are both on the map.
DriftStaysOnMap ==
    [][last_response' = Accepted("resolve_movement") =>
          \A id \in DOMAIN ships :
             Tracked(id) >= 2 =>
                /\ DriftOf(id, "drift_blocked") # {} <=> DriftOf(id, "drift") = {}
                /\ DriftOf(id, "drift_blocked") # {} =>
                      /\ DriftOutOfBounds(ships'[id], wind_direction, map_width, map_height)
                      /\ ships'[id].bow_hex = ships[id].bow_hex
                      /\ \/ ships'[id].stern_hex = ships[id].stern_hex
                         \/ ships'[id].stern_hex
                               = calculate_stern_from_bow(ships[id].bow_hex, ships'[id].facing)
                      /\ ships'[id].turns_without_bow_advance = Tracked(id)
                /\ \A i \in DriftOf(id, "drift") :
                      /\ InBounds(Downwind(event_log'[i].metadata.old_bow), map_width, map_height)
                      /\ InBounds(Downwind(event_log'[i].metadata.old_stern), map_width, map_height)
                      /\ InBounds(ships'[id].bow_hex, map_width, map_height)
                      /\ InBounds(ships'[id].stern_hex, map_width, map_height)]_vars
\* a ship idle for two turns or more at the downwind edge: its last event of
\* the turn is drift_blocked, it is on the map and its counter stands
DriftWasBlocked ==
    /\ last_response = Accepted("resolve_movement")
    /\ \E id \in DOMAIN ships :
          /\ ships[id].turns_without_bow_advance >= 2
          /\ DriftOutOfBounds(ships[id], wind_direction, map_width, map_height)
          /\ InBounds(ships[id].bow_hex, map_width, map_height)
          /\ InBounds(ships[id].stern_hex, map_width, map_height)
          /\ \E i \in 1..Len(event_log) :
                /\ event_log[i].turn_number = turn_number
                /\ event_log[i].event_type = "drift_blocked"
                /\ event_log[i].metadata.ship_id = id

\* C25: an advance_turn that succeeds adds 1 to turn_number, clears the
\* orders of both sides and sets the phase to planning, and leaves the ships
\* and the event log as they were; no other operation changes turn_number.
AdvanceTurnStartsNextTurn ==
    [][/\ last_response' = Accepted("advance_turn") =>
             /\ turn_number' = turn_number + 1
             /\ p1_orders' = NoOrders
             /\ p2_orders' = NoOrders
             /\ phase' = "planning"
             /\ ships' = ships
             /\ event_log' = event_log
       /\ turn_number' # turn_number => last_response' = Accepted("advance_turn")]_vars
\* turn 2 has just begun: no orders, planning, the log of turn 1 in place
SecondTurnBegun ==
    /\ last_response = Accepted("advance_turn")
    /\ turn_number = 2
    /\ phase = "planning"
    /\ p1_orders = NoOrders
    /\ p2_orders = NoOrders
    /\ event_log # <<>>
    /\ \A i \in 1..Len(event_log) : event_log[i].turn_number = 1

\* C26: a call that succeeds and changes the game (its turn, phase, ships,
\* orders or outcome) appends at least one event to the event log; a
\* submit_orders that succeeds appends an event.
EveryChangeIsLogged ==
    [][/\ (/\ last_response'.status = 200
           /\ <<turn_number, phase, ships, p1_orders, p2_orders, game_ended, winner>>'
                 # <<turn_number, phase, ships, p1_orders, p2_orders, game_ended, winner>>)
          => Len(event_log') > Len(event_log)
       /\ last_response' = Accepted("submit_orders") => Len(event_log') > Len(event_log)]_vars

\* C27: whatever a ship's bow, facing and broadside and whatever the range,
\* neither the ship's bow hex nor its stern hex is a hex of the ship's own
\* broadside arc.
OwnHexesOutside(ship, arc_hexes) ==
    /\ ship.bow_hex \notin arc_hexes
    /\ ship.stern_hex \notin arc_hexes
    /\ calculate_stern_from_bow(ship.bow_hex, ship.facing) \notin arc_hexes
OwnHexesNotInOwnArc ==
    \A id \in DOMAIN ships, b \in {"L", "R"}, max_range \in 1..DefaultMaxRange :
        OwnHexesOutside(ships[id], get_broadside_arc_hexes(ships[id], b, max_range))

\* the spellings of a movement string that differ from it by letter case or
\* by a blank before or after it
Lower(c) == CASE c = "L" -> "l" [] c = "R" -> "r" [] OTHER -> c
Spellings(ms) == { [i \in 1..Len(ms) |-> Lower(ms[i])], <<" ">> \o ms, ms \o <<" ">>,
                   <<" ">> \o [i \in 1..Len(ms) |-> Lower(ms[i])] \o <<" ">> }
SameAnswer(parsed, parsed_as, status, status_as) == parsed = parsed_as /\ status = status_as

\* C29: a movement string in lower case or with blanks around it is taken
\* as the same string in upper case without them: the parser gives the same
\* parse for both, and submit_orders gives the same answer to an order with
\* the one as to the order with the other.
NotationAnySpelling ==
    \A id \in DOMAIN ships, ms \in MoveStrings :
        \A spelled \in Spellings(ms) :
            SameAnswer(parse_movement(spelled), parse_movement(ms),
                       submit_orders_status(ships[id].side, turn_number,
                                            <<ShipOrders(id, spelled)>>),
                       submit_orders_status(ships[id].side, turn_number,
                                            <<ShipOrders(id, ms)>>))

\* the actions of a parsed movement the executor executes (it ends on a
\* NO_MOVEMENT action without executing it), and how many of them a ship has
\* executed after the first n entries of a trace
ToExecute(parsed) ==
    Cardinality({k \in 1..Len(parsed.actions) : parsed.actions[k].action_type # NO_MOVEMENT})
ExecutedBy(trace, n, id) == Cardinality({k \in 1..n : trace[k][1] = id})
\* the order of execution: an entry <<id, j>> says ship id executed the
\* action at index j (from 0) of its movement
InLockstep(trace, movements) ==
    /\ \A p \in 1..Len(trace) :
          trace[p][2] > 0 =>
              \A id \in DOMAIN movements :
                  ToExecute(movements[id]) >= trace[p][2] =>
                      \E q \in 1..(p - 1) : trace[q] = <<id, trace[p][2] - 1>>
    /\ \A n \in 0..Len(trace) :
          \A x, y \in DOMAIN movements :
              (/\ ExecutedBy(trace, n, x) < ToExecute(movements[x])
               /\ ExecutedBy(trace, n, y) < ToExecute(movements[y]))
                  => ExecutedBy(trace, n, x) - ExecutedBy(trace, n, y) \in {-1, 0, 1}
MovementsInLockstep(movements, order) ==
    InLockstep(execute_simultaneous_movement(ships, movements, order,
                                             map_width, map_height).trace,
               movements)

\* C30: in the execution of the orders of a turn no ship executes its
\* (k+1)-th action before every ship that has a k-th action has executed
\* it; at every point of the execution the numbers of actions executed by
\* two ships that both have actions left differ by at most 1.
SimultaneousMovementInLockstep ==
    (/\ phase = "planning"
     /\ p1_orders # NoOrders
     /\ p2_orders # NoOrders)
        => (OrdersParse(p1_orders.orders \o p2_orders.orders)
               => MovementsInLockstep(parsed_movements(p1_orders.orders \o p2_orders.orders),
                                      ParsedOrder(p1_orders.orders \o p2_orders.orders)))
\* movements of three and of two actions were executed together
UnequalMovementsExecuted ==
    /\ last_response = Accepted("resolve_movement")
    /\ \E i, j \in 1..Len(event_log) :
          /\ event_log[i].event_type = "movement"
          /\ event_log[i].metadata.ship_id = "a1"
          /\ Len(event_log[i].metadata.movement_string) = 3
          /\ event_log[j].event_type = "movement"
          /\ event_log[j].metadata.ship_id = "b1"
          /\ Len(event_log[j].metadata.movement_string) = 2

\* no hex holds the bow or the stern of two different ships
NoSharedHex(sh) ==
    \A x, y \in DOMAIN sh :
        x # y => get_ship_hexes(sh[x]) \cap get_ship_hexes(sh[y]) = {}

\* C31: where no two ships share a hex before a resolve_movement that
\* succeeds, no two ships share a hex in the snapshot it produces, after
\* the displacements of the collision step and after the drift.
NoSharedHexAfterMovement ==
    [][(last_response' = Accepted("resolve_movement") /\ NoSharedHex(ships))
           => NoSharedHex(ships')]_vars

\* C32: in every snapshot the bow hex and the stern hex of every ship lie
\* on the map: 0 <= col < map_width and 0 <= row < map_height.
ShipsOnMap ==
    \A id \in DOMAIN ships :
        /\ InBounds(ships[id].bow_hex, map_width, map_height)
        /\ InBounds(ships[id].stern_hex, map_width, map_height)

\* C33: for every ship and broadside that can fire, the valid targets the
\* broadside-arc query reports (get_all_valid_targets) are exactly the ships
\* fire_broadside accepts as target for that ship and broadside.
ArcQueryAgreesWithFire ==
    phase = "combat" =>
        \A id \in DOMAIN ships, b \in {"L", "R"} :
            can_fire_broadside(ships[id], b) =>
                get_all_valid_targets(ships[id], ships, b, DefaultMaxRange)
                    = {t \in DOMAIN ships : fire_broadside_status(turn_number, id, b, t) = 200}

\* the ships the collisions of a call displaced
Displaced ==
    {id \in DOMAIN ships :
        \E j \in AppendedOfType("collision") :
            id \in Range(event_log'[j].metadata.displaced_ship_ids)}
\* a displaced ship is back on its pose of before the call, or one hex
\* downwind of it where it drifted
BackOnPose(before, after, drifted) ==
    /\ after.facing = before.facing
    /\ after.bow_hex = (IF drifted THEN Downwind(before.bow_hex) ELSE before.bow_hex)
    /\ after.stern_hex = (IF drifted THEN Downwind(before.stern_hex) ELSE before.stern_hex)

\* C34: a ship that the collision step displaced back to its pose of before
\* the turn does not count as having advanced its bow: after resolve_movement
\* its counter is the value of before the turn plus 1, or 0 if it drifted.
DisplacedCountsAsIdle ==
    [][last_response' = Accepted("resolve_movement") =>
          \A id \in Displaced :
              ships'[id].turns_without_bow_advance =
                  (IF DriftOf(id, "drift") # {} THEN 0
                   ELSE ships[id].turns_without_bow_advance + 1)]_vars

\* C34 as the code has it: a displaced ship is back on its pose of before
\* the turn (one hex downwind of it if it then drifted), and its counter
\* follows the flag of the execution like that of any other ship: 0 if its
\* bow changed at any point of the execution, undone or not, or if it
\* drifted, and the value of before the turn plus 1 otherwise.
DisplacedCountsByFlag ==
    [][last_response' = Accepted("resolve_movement") =>
          \A id \in Displaced :
              /\ BackOnPose(ships[id], ships'[id], DriftOf(id, "drift") # {})
              /\ ships'[id].turns_without_bow_advance =
                    (IF BowAdvanced(id) \/ DriftOf(id, "drift") # {} THEN 0
                     ELSE ships[id].turns_without_bow_advance + 1)]_vars
\* b2 ran into a1, was put back on the hexes it started the game on, did
\* not drift, and counts from 0
DisplacedShipCountsFromZero ==
    /\ last_response = Accepted("resolve_movement")
    /\ turn_number = 1
    /\ Pose(ships["b2"]) = Pose(initial_ships(MeleeScenario)["b2"])
    /\ ships["b2"].turns_without_bow_advance = 0
    /\ \E i, j \in 1..Len(event_log) :
          /\ event_log[i].event_type = "movement"
          /\ event_log[i].metadata.ship_id = "b2"
          /\ event_log[i].metadata.bow_advanced
          /\ event_log[j].event_type = "collision"
          /\ "b2" \in Range(event_log[j].metadata.displaced_ship_ids)
    /\ \A i \in 1..Len(event_log) : event_log[i].event_type # "drift"

\* the fields of a ship a broadside may change: of the target its tracks,
\* gun counts and struck flag, of the firing ship the load fired
TargetFields == {"hull", "rigging", "crew", "marines", "guns_L", "guns_R", "struck"}
SameBut(before, after, fields) ==
    \A f \in (DOMAIN before) \ fields : after[f] = before[f]
FrameOfFire(firer, target, b) ==
    /\ \A id \in DOMAIN ships :
          /\ Pose(ships'[id]) = Pose(ships[id])
          /\ id \notin {firer, target} => ships'[id] = ships[id]
    /\ SameBut(ships[target], ships'[target], TargetFields)
    /\ SameBut(ships[firer], ships'[firer], {IF b = "L" THEN "load_L" ELSE "load_R"})

\* C35: a fire_broadside that succeeds changes at most the target's damage
\* tracks, gun counts and struck flag, the firing ship's load on the
\* broadside fired, the event log and the victory flags; phase, turn, map,
\* wind and orders, the bow, stern and facing of every ship and every
\* field of every other ship stay as they were.
FireChangesOnlyItsOwn ==
    [][last_response' = Accepted("fire_broadside") =>
          /\ UNCHANGED <<turn_number, phase, map_width, map_height, wind_direction,
                         p1_orders, p2_orders, turn_limit, victory_condition>>
          /\ DOMAIN ships' = DOMAIN ships
          /\ FrameOfFire(event_log'[Len(event_log')].metadata.firing_ship_id,
                         FireTarget, event_log'[Len(event_log')].metadata.broadside)]_vars
\* a1 has fired its starboard broadside in a game of three ships and its
\* target has struck
BroadsideLanded ==
    /\ last_response = Accepted("fire_broadside")
    /\ Cardinality(DOMAIN ships) = 3
    /\ ships["a1"].load_R = EMPTY
    /\ event_log # <<>>
    /\ event_log[Len(event_log)].event_type = "broadside_fire"
    /\ event_log[Len(event_log)].metadata.firing_ship_id = "a1"
    /\ ships[event_log[Len(event_log)].metadata.target_ship_id].struck


\* ------------------------------------------------ a way on from every snapshot
\* the calls that carry a game to the next turn: "0" for every ship of both
\* sides and resolve_movement, resolve_reload, advance_turn
HoldAll == HoldOrders(ships, "P1") \o HoldOrders(ships, "P2")
HoldsAccepted ==
    \A side \in Side : submit_orders_status(side, turn_number, HoldOrders(ships, side)) = 200
\* resolve_movement on these orders: they pass the try block and the
\* execution does not raise, so the handler goes on to its last block
HoldsExecuted(movements, order) ==
    ~execute_simultaneous_movement(ships, movements, order, map_width, map_height).err
HoldsResolved ==
    /\ OrdersParse(HoldAll)
    /\ HoldsExecuted(parsed_movements(HoldAll), ParsedOrder(HoldAll))
ReloadResolved ==
    /\ resolve_reload(turn_number)
    /\ last_response' = Accepted("resolve_reload")
    /\ phase' = "reload"
TurnAdvanced ==
    /\ advance_turn(turn_number)
    /\ last_response' = Accepted("advance_turn")
    /\ phase' = "planning"
    /\ turn_number' = turn_number + 1

\* C36: the game never gets stuck. In every snapshot of a game that has not
\* ended: in PLANNING, "0" for every ship is accepted from both sides and
\* resolve_movement on those orders neither refuses them nor fails in the
\* execution; in COMBAT, resolve_reload succeeds and leads to RELOAD; in
\* RELOAD, advance_turn succeeds and leads to PLANNING of the next turn. (A
\* reload the bounded event log has no room for is not held against the game.)
NeverStuck ==
    ~game_ended =>
        /\ phase = "planning" =>
              /\ HoldsAccepted
              /\ HoldsResolved
        /\ phase = "combat" =>
              ((ENABLED resolve_reload(turn_number)) => ENABLED ReloadResolved)
        /\ phase = "reload" => ENABLED TurnAdvanced
NextTurnReachedByHolding ==
    /\ turn_number = 2
    /\ phase = "planning"
    /\ ~game_ended
    /\ last_response = Accepted("advance_turn")
    /\ \A i \in 1..Len(event_log) :
           event_log[i].event_type = "movement"
               => event_log[i].metadata.movement_string = <<"0">>

====
